---- MODULE Spec2Model ----
(***************************************************************************)
(* Model of the screenshot pipeline of social-tools:                       *)
(*   screenshot/capture.go  CaptureScreenshot, captureRegularScreenshot,   *)
(*                          WaitForPageLoad, downloadThumbnailWithFallback,*)
(*                          downloadThumbnail, isYouTubeURL,               *)
(*                          extractYouTubeVideoID                          *)
(*   internal/errors/errors.go  categorizeError, NewScreenshotError,       *)
(*                          IsRetryableError, RetryConfig.ShouldRetry,     *)
(*                          RetryConfig.GetDelay                           *)
(*   screenshot/resize.go   SmartCrop, ResizeForSocialMedia,               *)
(*                          GenerateSocialMediaFilenames,                  *)
(*                          GenerateAllFilenames                           *)
(* Strings are sequences of one-character strings, so that prefix tests,   *)
(* substring search and lower-casing are computed as the code computes     *)
(* them.                                                                   *)
(***************************************************************************)
EXTENDS Integers, Sequences, FiniteSets, TLC

\* ------------------------------------------------------------------------
\* Bounds of the model
\* ------------------------------------------------------------------------
\* number of chunks of a thumbnail body
BodyLen == 2
\* largest config.Timeout drawn, in seconds
MaxTimeout == 2
\* longest duration of one step, in seconds
MaxStepDur == 1
\* largest number of fragments a drawn error message is made of
MaxFrags == 2
\* largest day number drawn
MaxDay == 2
\* largest attempt handed to ShouldRetry
MaxAttempt == 4
\* largest attempt handed to GetDelay
MaxDelayAttempt == 36
\* largest BackoffFactor drawn is 2^MaxFactorLog
MaxFactorLog == 2
\* cap of the attempt counter of the retry loop
MaxLoopAttempts == 5
\* largest width and height of the small images and targets drawn
MaxDim == 3
\* largest number of calls of UpdateScreenshotReference on one log
MaxUpdates == 2
\* largest number of lines a failing WriteMarkdownFile has written
MaxWritten == 1

\* ------------------------------------------------------------------------
\* Program constants
\* ------------------------------------------------------------------------
\* httpTimeout = 10 * time.Second
httpTimeout == 10
\* time.Sleep(2 * time.Second) at the end of WaitForPageLoad
graceDelay == 2
\* http.StatusOK
StatusOK == 200
\* {11} in youtubeIDPatterns
idLen == 11
\* MaxRetries of NewDefaultRetryConfig
DefaultMaxRetries == 3

\* ------------------------------------------------------------------------
\* Character sequences
\* ------------------------------------------------------------------------
sHttp == <<"h", "t", "t", "p", ":", "/", "/">>
sHttps == <<"h", "t", "t", "p", "s", ":", "/", "/">>
sWww == <<"w", "w", "w", ".">>
sWatch == <<"y", "o", "u", "t", "u", "b", "e", ".", "c", "o", "m", "/", "w", "a", "t", "c", "h", "?", "v", "=">>
sShort == <<"y", "o", "u", "t", "u", ".", "b", "e", "/">>
sEmbed == <<"y", "o", "u", "t", "u", "b", "e", ".", "c", "o", "m", "/", "e", "m", "b", "e", "d", "/">>
sVideoID == <<"K", "f", "5", "-", "H", "W", "J", "P", "T", "I", "E">>
sBadID == <<"a", "b", "c">>
sArticle == <<"e", "x", "a", "m", "p", "l", "e", ".", "c", "o", "m", "/", "a", "r", "t", "i", "c", "l", "e">>
sFtp == <<"f", "t", "p", ":", "/", "/">>
sMobile == <<"m", ".">>
sOtherID == <<"d", "Q", "w", "4", "w", "9", "W", "g", "X", "c", "Q">>
sParam == <<"&", "t", "=", "4", "2", "s">>
sQuery == <<"?", "u", "=">>
sInvalid == <<"i", "n", "v", "a", "l", "i", "d", "-", "u", "r", "l">>
pTimeout == <<"t", "i", "m", "e", "o", "u", "t">>
pDeadline == <<"c", "o", "n", "t", "e", "x", "t", " ", "d", "e", "a", "d", "l", "i", "n", "e", " ", "e", "x", "c", "e", "e", "d", "e", "d">>
p404 == <<"4", "0", "4">>
pNotFound == <<"n", "o", "t", " ", "f", "o", "u", "n", "d">>
p403 == <<"4", "0", "3">>
pForbidden == <<"f", "o", "r", "b", "i", "d", "d", "e", "n">>
p500 == <<"5", "0", "0">>
p502 == <<"5", "0", "2">>
p503 == <<"5", "0", "3">>
pDns == <<"d", "n", "s">>
pNoHost == <<"n", "o", " ", "s", "u", "c", "h", " ", "h", "o", "s", "t">>
pRefused == <<"c", "o", "n", "n", "e", "c", "t", "i", "o", "n", " ", "r", "e", "f", "u", "s", "e", "d">>
pReset == <<"c", "o", "n", "n", "e", "c", "t", "i", "o", "n", " ", "r", "e", "s", "e", "t">>
pBrowser == <<"b", "r", "o", "w", "s", "e", "r">>
pLaunch == <<"l", "a", "u", "n", "c", "h">>
mUnknown == <<"s", "o", "m", "e", " ", "u", "n", "k", "n", "o", "w", "n", " ", "e", "r", "r", "o", "r">>
mUpperForbidden == <<"F", "o", "r", "b", "i", "d", "d", "e", "n">>
mUpperDNS == <<"D", "N", "S">>
m504 == <<"5", "0", "4">>
mSpace == <<" ">>
UpperChars == <<"A", "B", "C", "D", "E", "F", "G", "H", "I", "J", "K", "L", "M", "N", "O", "P", "Q", "R", "S", "T", "U", "V", "W", "X", "Y", "Z">>
LowerChars == <<"a", "b", "c", "d", "e", "f", "g", "h", "i", "j", "k", "l", "m", "n", "o", "p", "q", "r", "s", "t", "u", "v", "w", "x", "y", "z">>
Digits == <<"0", "1", "2", "3", "4", "5", "6", "7", "8", "9">>

Min(a, b) == IF a < b THEN a ELSE b
Max(a, b) == IF a > b THEN a ELSE b

\* strings.ToLower on one character (ASCII letters)
LowerChar(c) ==
  IF \E i \in 1..Len(UpperChars) : UpperChars[i] = c
  THEN LowerChars[CHOOSE i \in 1..Len(UpperChars) : UpperChars[i] = c]
  ELSE c

\* strings.ToLower
ToLower(s) == [i \in 1..Len(s) |-> LowerChar(s[i])]

\* the substring of s of length n that starts after position i (0-based i)
Slice(s, i, n) == SubSeq(s, i + 1, i + n)

\* strings.Contains
Contains(s, sub) ==
  \E i \in 0..(Len(s) - Len(sub)) : Slice(s, i, Len(sub)) = sub

\* strings.HasPrefix, the effect of a regexp anchored with ^
HasPrefix(s, p) == Len(p) <= Len(s) /\ SubSeq(s, 1, Len(p)) = p

\* the character class [a-zA-Z0-9_-]
IdChars ==
  {UpperChars[i] : i \in 1..Len(UpperChars)} \cup
  {LowerChars[i] : i \in 1..Len(LowerChars)} \cup
  {Digits[i] : i \in 1..Len(Digits)} \cup {"_", "-"}

\* ------------------------------------------------------------------------
\* URL classifier
\* ------------------------------------------------------------------------
\* the alternatives of youtubeURLRegex after ^https?://(www\.)?
youtubeHostShapes == <<sWatch, sShort, sEmbed>>

\* youtubeURLRegex.MatchString
isYouTubeURL(url) ==
  \E scheme \in {sHttp, sHttps}, w \in {<<>>, sWww}, k \in 1..Len(youtubeHostShapes) :
    HasPrefix(url, scheme \o w \o youtubeHostShapes[k])

\* the literal parts of youtubeIDPatterns, in the order of the slice
youtubeIDPatterns == <<sWatch, sShort, sEmbed>>

\* positions (0-based) where pattern lit([a-zA-Z0-9_-]{11}) matches in url
IDMatchAt(url, lit) ==
  {i \in 0..(Len(url) - Len(lit) - idLen) :
     /\ Slice(url, i, Len(lit)) = lit
     /\ \A j \in 1..idLen : url[i + Len(lit) + j] \in IdChars}

SetMin(S) == CHOOSE x \in S : \A y \in S : x <= y

\* extractYouTubeVideoID: ok is FALSE for the error return
extractYouTubeVideoID(url) ==
  LET hits == {k \in 1..Len(youtubeIDPatterns) : IDMatchAt(url, youtubeIDPatterns[k]) # {}}
  IN IF hits = {}
     THEN [ok |-> FALSE, id |-> <<>>]
     ELSE LET k == SetMin(hits)
              lit == youtubeIDPatterns[k]
              i == SetMin(IDMatchAt(url, lit))
          IN [ok |-> TRUE, id |-> Slice(url, i + Len(lit), idLen)]

\* ------------------------------------------------------------------------
\* State of one acquisition (one call of CaptureScreenshot)
\* ------------------------------------------------------------------------
VARIABLES
  url,          \* argument url
  cfgTimeout,   \* config.Timeout, in seconds
  pc,           \* position of the call
  tier,         \* loop index of downloadThumbnailWithFallback, 1..4
  requested,    \* the quality tiers requested so far, in order
  okTier,       \* index of the tier whose download returned nil, 0 if none
  file,         \* content of the file at the output path, NoFile if absent
  fileBefore,   \* content of that file when the call started
  leftover,     \* a failed tier of this call left the file changed
  thumbErr,     \* what downloadThumbnailWithFallback returned
  renderErr,    \* what captureRegularScreenshot returned
  result,       \* what CaptureScreenshot returned
  renderCalls,  \* number of calls of captureRegularScreenshot
  launcherUp,   \* a launched browser process not yet cleaned up
  browserUp,    \* a browser connection not yet closed
  pageUp,       \* a page handle not yet closed
  deferred,     \* stack of deferred calls of captureRegularScreenshot
  clock,        \* seconds since the call started
  ctxDeadline,  \* deadline of ctx, NoDeadline before context.WithTimeout
  errv,         \* error handed to the error classifier
  category      \* category assigned to errv

acqVars == <<url, cfgTimeout, pc, tier, requested, okTier, file, fileBefore, leftover,
             thumbErr, renderErr, result, renderCalls, launcherUp, browserUp,
             pageUp, deferred, clock, ctxDeadline>>

\* ------------------------------------------------------------------------
\* State of the retry policy (RetryConfig, IsRetryableError, GetDelay)
\* ------------------------------------------------------------------------
VARIABLES
  rerr,          \* error handed to IsRetryableError and ShouldRetry
  wrapped,       \* what NewScreenshotError made of rerr
  attempt,       \* argument attempt of ShouldRetry
  maxRetries,    \* rc.MaxRetries
  rpc,           \* position of the retry decision or of the retry loop
  retryable,     \* IsRetryableError(rerr)
  should,        \* rc.ShouldRetry(rerr, attempt)
  shouldWrapped, \* rc.ShouldRetry(wrapped, attempt)
  firstType,     \* category of the first failure of the retry loop
  policy,        \* rc.InitialDelay, rc.BackoffFactor, rc.MaxDelay
  dAttempt,      \* argument attempt of GetDelay
  delay,         \* rc.GetDelay(dAttempt)
  delayNext,     \* rc.GetDelay(dAttempt + 1)
  dpc            \* position of the delay computation

retryVars == <<rerr, wrapped, attempt, maxRetries, rpc, retryable, should,
               shouldWrapped, firstType>>
delayVars == <<policy, dAttempt, delay, delayNext, dpc>>
\* ------------------------------------------------------------------------
\* State of the resizer (SmartCrop, ResizeForSocialMedia)
\* ------------------------------------------------------------------------
VARIABLES
  cSrc,          \* argument img of SmartCrop
  cTarget,       \* arguments targetWidth, targetHeight of SmartCrop
  cOut,          \* what SmartCrop returned
  cpc,           \* position of the call of SmartCrop
  originalFile,  \* argument originalFile of ResizeForSocialMedia
  baseFilename,  \* argument baseFilename of ResizeForSocialMedia
  configured,    \* keys of PlatformConfigs
  todo,          \* keys the range loop has not visited yet
  img,           \* local img of ResizeForSocialMedia
  img0,          \* the image imaging.Open decoded
  disk,            \* files on disk: set of [path, img]
  disk0,           \* files on disk when the call started
  rzErr,         \* what ResizeForSocialMedia returned
  zpc            \* position of the call of ResizeForSocialMedia

cropVars == <<cSrc, cTarget, cOut, cpc>>
rszVars == <<originalFile, baseFilename, configured, todo, img, img0, disk, disk0, rzErr, zpc>>
resizeVars == <<cropVars, rszVars>>

\* ------------------------------------------------------------------------
\* State of one URL classification and of one markdown log
\* ------------------------------------------------------------------------
VARIABLES
  uIn,           \* the parts the URL handed to the classifier is made of
  uStr,          \* argument url of isYouTubeURL and extractYouTubeVideoID
  uVideo,        \* what isYouTubeURL returned
  uID,           \* what extractYouTubeVideoID returned
  uThumb,        \* CaptureScreenshot called downloadThumbnailWithFallback
  upc,           \* position of the classification
  mdFile,        \* the log on disk: its lines, and whether the last one is terminated
  mdBackup,      \* the file FilePath + ".backup", NoBackup when absent
  mf,            \* the *MarkdownFile: Entries and content
  mf0,           \* mf before the last call that changed or replaced it
  mdDay,         \* argument day of the last UpdateScreenshotReference
  mdName,        \* argument filename of the last UpdateScreenshotReference
  mdErr,         \* what the last call returned
  mdGot,         \* what GetEntriesWithoutScreenshots returned last
  mdDone,        \* indexes of the entries of mf an update has succeeded for
  mdUpdates,     \* number of calls of UpdateScreenshotReference so far
  mpc            \* the last call made on the log

urlVars == <<uIn, uStr, uVideo, uID, uThumb, upc>>
mdVars == <<mdFile, mdBackup, mf, mf0, mdDay, mdName, mdErr, mdGot, mdDone, mdUpdates, mpc>>
docVars == <<urlVars, mdVars>>
restVars == <<retryVars, delayVars, resizeVars, docVars>>

NoParts == [scheme |-> <<>>, host |-> <<>>, shape |-> <<>>, id |-> <<>>, tail |-> <<>>]
NoID == [ok |-> FALSE, id |-> <<>>]

UrlIdle ==
  /\ uIn = NoParts
  /\ uStr = <<>>
  /\ uVideo = FALSE
  /\ uID = NoID
  /\ uThumb = FALSE
  /\ upc = "off"

NoBackup == [present |-> FALSE, lines |-> <<>>, nl |-> FALSE]
NoMarkdownFile == [Entries |-> <<>>, content |-> <<>>]

MdIdle ==
  /\ mdFile = [lines |-> <<>>, nl |-> FALSE]
  /\ mdBackup = NoBackup
  /\ mf = NoMarkdownFile
  /\ mf0 = NoMarkdownFile
  /\ mdDay = 0
  /\ mdName = <<>>
  /\ mdErr = "none"
  /\ mdGot = <<>>
  /\ mdDone = {}
  /\ mdUpdates = 0
  /\ mpc = "off"

DocIdle == UrlIdle /\ MdIdle

\* an image: its size, which sides of the source picture it has lost, and
\* the first pass of SmartCrop that produced it ("none" for a source)
Image(w, h) ==
  [w |-> w, h |-> h, cutTop |-> FALSE, cutBottom |-> FALSE, cutLeft |-> FALSE,
   cutRight |-> FALSE, pass |-> "none"]
\* &image.NRGBA{}
EmptyImage == Image(0, 0)

CropIdle ==
  /\ cSrc = EmptyImage
  /\ cTarget = [Width |-> 0, Height |-> 0]
  /\ cOut = EmptyImage
  /\ cpc = "off"

RszIdle ==
  /\ originalFile = <<>>
  /\ baseFilename = <<>>
  /\ configured = {}
  /\ todo = {}
  /\ img = EmptyImage
  /\ img0 = EmptyImage
  /\ disk = {}
  /\ disk0 = {}
  /\ rzErr = "pending"
  /\ zpc = "off"

ResizeIdle == CropIdle /\ RszIdle

\* an error value: kind "raw" carries msg and isNet (its dynamic type
\* implements net.Error); kind "classified" is a *ScreenshotError
RawError(msg, isNet) ==
  [kind |-> "raw", msg |-> msg, isNet |-> isNet, url |-> <<>>, day |-> 0,
   errorType |-> ""]
ScreenshotError(u, d, t, msg) ==
  [kind |-> "classified", msg |-> msg, isNet |-> FALSE, url |-> u, day |-> d,
   errorType |-> t]
NoError ==
  [kind |-> "none", msg |-> <<>>, isNet |-> FALSE, url |-> <<>>, day |-> 0,
   errorType |-> ""]

\* a duration or a float64 of value m * 2^e
Num(m, e) == [m |-> m, e |-> e]
Zero == Num(0, 0)

RetryIdle ==
  /\ rerr = NoError
  /\ wrapped = NoError
  /\ attempt = 0
  /\ maxRetries = 0
  /\ rpc = "off"
  /\ retryable = FALSE
  /\ should = FALSE
  /\ shouldWrapped = FALSE
  /\ firstType = ""

DelayIdle ==
  /\ policy = [initial |-> Zero, factorLog |-> 0, max |-> Zero]
  /\ dAttempt = 0
  /\ delay = Zero
  /\ delayNext = Zero
  /\ dpc = "off"

RestIdle == RetryIdle /\ DelayIdle /\ ResizeIdle /\ DocIdle

errVars == <<errv, category, restVars>>
vars == <<acqVars, errVars>>

NoFile == << <<"absent", 0>> >>
NoDeadline == -1
Pending == [stage |-> "pending", cause |-> "pending"]
Nil == [stage |-> "nil", cause |-> "nil"]
Err(stage, cause) == [stage |-> stage, cause |-> cause]

\* the URLs an acquisition is started with
URLs ==
  { sHttps \o sShort \o sVideoID,
    sHttps \o sWww \o sWatch \o sVideoID,
    sHttp \o sEmbed \o sVideoID,
    sHttps \o sShort \o sBadID,
    sHttps \o sArticle,
    sInvalid }

\* body served for a quality tier: BodyLen chunks
Body(q) == [i \in 1..BodyLen |-> <<q, i>>]
\* raster bytes returned by page.Screenshot
Shot == [i \in 1..BodyLen |-> <<"png", i>>]
\* a file that exists before the call
OldFile == << <<"old", 1>> >>

Statuses == {StatusOK, 204, 404}

\* what the network and the filesystem answer to one downloadThumbnail call
Responses ==
  [transportOk : BOOLEAN, status : Statuses, createOk : BOOLEAN,
   copyOk : BOOLEAN, written : 0..BodyLen]

\* qualities of downloadThumbnailWithFallback
qualities == <<"maxresdefault", "hqdefault", "mqdefault", "default">>

\* osCreate without truncation: an existing file keeps its bytes
osCreate_NoTruncate(f) == IF f = NoFile THEN <<>> ELSE f

\* os.Create(outputPath): creates or truncates the file
osCreate(f) == <<>>

\* io.Copy(file, resp.Body) onto the open file f: n chunks of body are written
ioCopy(f, body, n) == f \o SubSeq(body, 1, n)

\* downloadThumbnail(videoID, quality, outputPath) on the file f, answered by r
downloadThumbnail(q, r, f) ==
  IF ~r.transportOk THEN [err |-> Err("get", "other"), file |-> f]
  ELSE IF r.status # StatusOK THEN [err |-> Err("status", "other"), file |-> f]
  ELSE IF ~r.createOk THEN [err |-> Err("create", "other"), file |-> f]
  ELSE IF ~r.copyOk THEN [err |-> Err("copy", "other"), file |-> ioCopy(osCreate(f), Body(q), r.written)]
  ELSE [err |-> Nil, file |-> ioCopy(osCreate(f), Body(q), BodyLen)]

\* FallbackNext with the early return missing: the loop goes on after a success
FallbackNext_NoShortCircuit(e, i) ==
  IF i < Len(qualities) THEN "next tier"
  ELSE IF e = Nil THEN "return nil"
  ELSE "return error"

\* the loop of downloadThumbnailWithFallback after the call for tier i returned e
FallbackNext(e, i) ==
  IF e = Nil THEN "return nil"
  ELSE IF i < Len(qualities) THEN "next tier"
  ELSE "return error"

\* CaptureScreenshot: is the thumbnail ladder tried for this url
\* the thumbnail ladder entered on the identifier alone, without the test of line 153
TriesThumbnail_Ungated(u) == extractYouTubeVideoID(u).ok
TriesThumbnail(u) == isYouTubeURL(u) /\ extractYouTubeVideoID(u).ok

\* ReturnsOnThumbnail with the return nil missing
ReturnsOnThumbnail_Never(e) == FALSE

\* CaptureScreenshot: does it return nil after downloadThumbnailWithFallback returned e
ReturnsOnThumbnail(e) == e = Nil

\* FallbackResult that hands back the thumbnail failure when there is one
FallbackResult_ThumbnailFirst(te, re) == IF te \in {Pending, Nil} THEN re ELSE te

\* CaptureScreenshot: its result when the thumbnail path did not return;
\* te is the thumbnail error (Pending if not tried), re the renderer's result
FallbackResult(te, re) == re

AcqInit ==
  /\ url \in URLs
  /\ cfgTimeout \in 1..MaxTimeout
  /\ pc = "start"
  /\ tier = 0
  /\ requested = <<>>
  /\ okTier = 0
  /\ fileBefore \in {NoFile, OldFile}
  /\ file = fileBefore
  /\ leftover = FALSE
  /\ thumbErr = Pending
  /\ renderErr = Pending
  /\ result = Pending
  /\ renderCalls = 0
  /\ launcherUp = FALSE
  /\ browserUp = FALSE
  /\ pageUp = FALSE
  /\ deferred = <<>>
  /\ clock = 0
  /\ ctxDeadline = NoDeadline

\* entering captureRegularScreenshot
EnterRender ==
  /\ pc' = "launch"
  /\ renderCalls' = renderCalls + 1

\* CaptureScreenshot up to the first call it makes
CaptureScreenshot ==
  /\ pc = "start"
  /\ IF TriesThumbnail(url)
     THEN /\ pc' = "thumb"
          /\ tier' = 1
          /\ UNCHANGED renderCalls
     ELSE /\ EnterRender
          /\ UNCHANGED tier
  /\ UNCHANGED <<errVars, leftover, url, cfgTimeout, requested, okTier, file, fileBefore, thumbErr,
                 renderErr, result, launcherUp, browserUp, pageUp, deferred,
                 clock, ctxDeadline>>

\* one iteration of the loop of downloadThumbnailWithFallback, and what
\* CaptureScreenshot does when the loop returns
DownloadTier ==
  /\ pc = "thumb"
  /\ \E r \in Responses, d \in 0..Min(MaxStepDur, httpTimeout) :
       LET got == downloadThumbnail(qualities[tier], r, file)
           nxt == FallbackNext(got.err, tier)
           ret == IF nxt = "return nil" THEN Nil ELSE Err("thumbnail", "other")
       IN /\ requested' = Append(requested, qualities[tier])
          /\ file' = got.file
          /\ clock' = clock + d
          /\ okTier' = IF got.err = Nil /\ okTier = 0 THEN tier ELSE okTier
          /\ leftover' = (leftover \/ (got.err # Nil /\ got.file # file))
          /\ IF nxt = "next tier"
             THEN /\ tier' = tier + 1
                  /\ UNCHANGED <<pc, thumbErr, result, renderCalls>>
             ELSE /\ thumbErr' = ret
                  /\ IF ReturnsOnThumbnail(ret)
                     THEN pc' = "done" /\ result' = Nil /\ UNCHANGED renderCalls
                     ELSE EnterRender /\ UNCHANGED result
                  /\ UNCHANGED tier
  /\ UNCHANGED <<errVars, url, cfgTimeout, fileBefore, renderErr, launcherUp,
                 browserUp, pageUp, deferred, ctxDeadline>>

\* ------------------------------------------------------------------------
\* captureRegularScreenshot
\* ------------------------------------------------------------------------
Push(stack, f) == <<f>> \o stack

\* return fmt.Errorf(...) of captureRegularScreenshot: the deferred calls run next
RenderFails(stage, cause) ==
  /\ renderErr' = Err(stage, cause)
  /\ pc' = "defers"

\* CleanupOnConnectError with the launcher.Cleanup() call missing
CleanupOnConnectError_Forgotten(up) == up

\* launcher.Cleanup() on the path where browser.Connect failed
CleanupOnConnectError(up) == FALSE

\* the calls deferred once browser.Connect and context.WithTimeout succeeded
DeferredAfterConnect(stack) == Push(Push(stack, "browser"), "cancel")

\* defer page.Close()
DeferredAfterPage(stack) == Push(stack, "page")

\* launcher.New().Headless(true).Launch(): not bound to any context
Launch ==
  /\ pc = "launch"
  /\ \E d \in 0..MaxStepDur, ok \in BOOLEAN :
       /\ clock' = clock + d
       /\ IF ok
          THEN /\ launcherUp' = TRUE
               /\ pc' = "connect"
               /\ UNCHANGED renderErr
          ELSE /\ RenderFails("failed to launch browser", "other")
               /\ UNCHANGED launcherUp
  /\ UNCHANGED <<errVars, leftover, url, cfgTimeout, tier, requested, okTier, file, fileBefore,
                 thumbErr, result, renderCalls, browserUp, pageUp, deferred,
                 ctxDeadline>>

\* rod.New().ControlURL(u).Connect(), the first defer and context.WithTimeout
Connect ==
  /\ pc = "connect"
  /\ \E d \in 0..MaxStepDur, ok \in BOOLEAN :
       /\ clock' = clock + d
       /\ IF ok
          THEN /\ browserUp' = TRUE
               /\ deferred' = DeferredAfterConnect(deferred)
               /\ ctxDeadline' = clock' + cfgTimeout
               /\ pc' = "page"
               /\ UNCHANGED <<launcherUp, renderErr>>
          ELSE /\ launcherUp' = CleanupOnConnectError(launcherUp)
               /\ RenderFails("failed to connect to browser", "other")
               /\ UNCHANGED <<browserUp, deferred, ctxDeadline>>
  /\ UNCHANGED <<errVars, leftover, url, cfgTimeout, tier, requested, okTier, file, fileBefore,
                 thumbErr, result, renderCalls, pageUp>>

\* a call on the page that carries ctx: it takes d seconds, is cut at the
\* deadline of ctx, and otherwise succeeds or fails
CtxStep(from, to, stage) ==
  /\ pc = from
  /\ \E d \in 0..MaxStepDur, ok \in BOOLEAN :
       LET end == clock + d
           expired == end > ctxDeadline
       IN /\ clock' = IF expired THEN Max(clock, ctxDeadline) ELSE end
          /\ IF expired THEN RenderFails(stage, "context deadline exceeded")
             ELSE IF ~ok THEN RenderFails(stage, "other")
             ELSE pc' = to /\ UNCHANGED renderErr

\* browser.Context(ctx).Page(...) and defer page.Close()
CreatePage ==
  /\ CtxStep("page", "viewport", "failed to create page")
  /\ IF pc' = "viewport"
     THEN pageUp' = TRUE /\ deferred' = DeferredAfterPage(deferred)
     ELSE UNCHANGED <<pageUp, deferred>>
  /\ UNCHANGED <<errVars, leftover, url, cfgTimeout, tier, requested, okTier, file, fileBefore,
                 thumbErr, result, renderCalls, launcherUp, browserUp,
                 ctxDeadline>>

idleVars == <<errVars, leftover, url, cfgTimeout, tier, requested, okTier, file, fileBefore,
              thumbErr, result, renderCalls, launcherUp, browserUp, pageUp,
              deferred, ctxDeadline>>

\* page.SetViewport
SetViewport ==
  CtxStep("viewport", "useragent", "failed to set viewport") /\ UNCHANGED idleVars

\* page.SetUserAgent
SetUserAgent ==
  CtxStep("useragent", "navigate", "failed to set user agent") /\ UNCHANGED idleVars

\* page.Navigate(url)
Navigate ==
  CtxStep("navigate", "waitload", "failed to navigate to URL") /\ UNCHANGED idleVars

\* WaitForPageLoad: page.WaitLoad()
WaitLoad ==
  CtxStep("waitload", "fonts", "failed waiting for DOM load") /\ UNCHANGED idleVars

\* WaitForPageLoad: page.Eval(document.fonts.ready)
EvalFonts ==
  CtxStep("fonts", "idle", "failed waiting for fonts") /\ UNCHANGED idleVars

\* WaitForPageLoad: page.WaitRequestIdle(...) returns a wait function, which
\* the code drops without calling; no error is looked at
WaitRequestIdle ==
  /\ pc = "idle"
  /\ pc' = "stable"
  /\ UNCHANGED <<clock, renderErr>>
  /\ UNCHANGED idleVars

\* WaitForPageLoad: page.WaitStable(1 * time.Second)
WaitStable ==
  CtxStep("stable", "sleep", "failed waiting for content stability") /\ UNCHANGED idleVars

\* WaitForPageLoad: time.Sleep(2 * time.Second), which no context interrupts
Sleep ==
  /\ pc = "sleep"
  /\ clock' = clock + graceDelay
  /\ pc' = "screenshot"
  /\ UNCHANGED renderErr
  /\ UNCHANGED idleVars

\* page.Screenshot(false, png)
Screenshot ==
  CtxStep("screenshot", "write", "failed to capture screenshot") /\ UNCHANGED idleVars

\* os.WriteFile(path, data, perm) on the file f: open with O_TRUNC, then write
\* n chunks; opened is FALSE when the open itself fails
osWriteFile(f, data, opened, n) ==
  IF ~opened THEN f ELSE SubSeq(data, 1, n)

\* os.WriteFile of the raster bytes: not bound to any context
WriteFile ==
  /\ pc = "write"
  /\ \E d \in 0..MaxStepDur, opened \in BOOLEAN, n \in 0..BodyLen :
       /\ clock' = clock + d
       /\ file' = osWriteFile(file, Shot, opened, n)
       /\ IF opened /\ n = BodyLen
          THEN renderErr' = Nil /\ pc' = "defers"
          ELSE RenderFails("failed to write screenshot file", "other")
  /\ UNCHANGED <<errVars, leftover, url, cfgTimeout, tier, requested, okTier, fileBefore, thumbErr,
                 result, renderCalls, launcherUp, browserUp, pageUp, deferred,
                 ctxDeadline>>

\* deferred page.Close(): the page carries ctx, so the call fails once ctx expired
DeferPageClose ==
  /\ pc = "defers"
  /\ deferred # <<>> /\ Head(deferred) = "page"
  /\ deferred' = Tail(deferred)
  /\ pageUp' = IF clock >= ctxDeadline THEN pageUp ELSE FALSE
  /\ UNCHANGED <<errVars, leftover, url, cfgTimeout, pc, tier, requested, okTier, file, fileBefore,
                 thumbErr, renderErr, result, renderCalls, launcherUp, browserUp,
                 clock, ctxDeadline>>

\* deferred cancel()
DeferCancel ==
  /\ pc = "defers"
  /\ deferred # <<>> /\ Head(deferred) = "cancel"
  /\ deferred' = Tail(deferred)
  /\ UNCHANGED <<errVars, leftover, url, cfgTimeout, pc, tier, requested, okTier, file, fileBefore,
                 thumbErr, renderErr, result, renderCalls, launcherUp, browserUp,
                 pageUp, clock, ctxDeadline>>

\* deferred func() { browser.Close(); launcher.Cleanup() }: closing the
\* browser closes its pages
DeferBrowserClose ==
  /\ pc = "defers"
  /\ deferred # <<>> /\ Head(deferred) = "browser"
  /\ deferred' = Tail(deferred)
  /\ browserUp' = FALSE
  /\ pageUp' = FALSE
  /\ launcherUp' = FALSE
  /\ \E d \in 0..MaxStepDur : clock' = clock + d
  /\ UNCHANGED <<errVars, leftover, url, cfgTimeout, pc, tier, requested, okTier, file, fileBefore,
                 thumbErr, renderErr, result, renderCalls, ctxDeadline>>

\* captureRegularScreenshot has returned: CaptureScreenshot returns
ReturnFallback ==
  /\ pc = "defers"
  /\ deferred = <<>>
  /\ result' = FallbackResult(thumbErr, renderErr)
  /\ pc' = "done"
  /\ UNCHANGED <<errVars, leftover, url, cfgTimeout, tier, requested, okTier, file, fileBefore,
                 thumbErr, renderErr, renderCalls, launcherUp, browserUp, pageUp,
                 deferred, clock, ctxDeadline>>

AcqNext ==
  \/ CaptureScreenshot
  \/ DownloadTier
  \/ Launch
  \/ Connect
  \/ CreatePage
  \/ SetViewport
  \/ SetUserAgent
  \/ Navigate
  \/ WaitLoad
  \/ EvalFonts
  \/ WaitRequestIdle
  \/ WaitStable
  \/ Sleep
  \/ Screenshot
  \/ WriteFile
  \/ DeferPageClose
  \/ DeferCancel
  \/ DeferBrowserClose
  \/ ReturnFallback

\* ------------------------------------------------------------------------
\* Acquisition orchestrator and thumbnail fetcher: properties
\* ------------------------------------------------------------------------
Returned == pc = "done"
RankedTiers == <<"maxresdefault", "hqdefault", "mqdefault", "default">>
CompleteThumbnails == {[i \in 1..BodyLen |-> <<RankedTiers[k], i>>] : k \in 1..4}
CompleteShot == [i \in 1..BodyLen |-> <<"png", i>>]

\* C1: for a URL classified as a video host whose ID extraction succeeds, once
\* downloadThumbnailWithFallback has returned nil the call has returned nil
\* and captureRegularScreenshot was never entered (no launch, connect or page).
C1_ThumbnailSuccessSkipsRenderer ==
  (okTier # 0 /\ isYouTubeURL(url) /\ extractYouTubeVideoID(url).ok) =>
    /\ Returned
    /\ result = Nil
    /\ renderCalls = 0
    /\ renderErr = Pending
    /\ ~launcherUp /\ ~browserUp /\ ~pageUp /\ ctxDeadline = NoDeadline

C1_Witness ==
  /\ Returned
  /\ url = sHttps \o sShort \o sVideoID
  /\ okTier = 1
  /\ result = Nil
  /\ renderCalls = 0

\* C2: when the call returns without a successful thumbnail fetch (URL not a
\* video host, extraction failed, or every tier failed), the renderer was
\* entered exactly once and the call's result is the renderer's result; the
\* thumbnail failure is not what is returned.
C2_FallbackReturnsRendererOutcome ==
  (Returned /\ okTier = 0) =>
    /\ renderCalls = 1
    /\ renderErr # Pending
    /\ result = renderErr
    /\ result.stage # "thumbnail"

C2_Witness ==
  /\ Returned
  /\ thumbErr = Err("thumbnail", "other")
  /\ renderCalls = 1
  /\ renderErr = Err("failed to navigate to URL", "other")
  /\ result = renderErr

\* C3: the tiers are requested in the order maxresdefault, hqdefault,
\* mqdefault, default, each only after every earlier one failed, and none
\* after the first success; when only the lowest tier succeeds all four were
\* requested and the call succeeds with that tier's content.
C3_TiersInRankedOrder ==
  /\ Len(requested) <= 4
  /\ requested = SubSeq(RankedTiers, 1, Len(requested))
  /\ okTier # 0 => (Len(requested) = okTier /\ thumbErr = Nil)
  /\ okTier = 0 => (thumbErr # Nil /\ (pc = "thumb" => Len(requested) = tier - 1))
  /\ thumbErr = Err("thumbnail", "other") => requested = RankedTiers
  /\ okTier = 4 =>
       /\ requested = RankedTiers
       /\ result = Nil
       /\ file = [i \in 1..BodyLen |-> <<"default", i>>]

C3_Witness ==
  /\ Returned
  /\ okTier = 4
  /\ requested = RankedTiers
  /\ result = Nil


\* C4: when downloadThumbnailWithFallback returns failure, the destination
\* path holds nothing this call created or wrote.
C4_NoFileAfterLadderFailure ==
  (pc = "launch" /\ thumbErr = Err("thumbnail", "other")) => file = fileBefore

\* C5: a call that returns an error has written nothing at the output path,
\* and a call that returns nil has left a complete image there.
C5_NoPartialStates ==
  Returned =>
    /\ result # Nil => file = fileBefore
    /\ result = Nil => file \in (CompleteThumbnails \cup {CompleteShot})

\* C6: when downloadThumbnailWithFallback returns nil, the file at the
\* destination exists and holds exactly the complete body of the first tier
\* that succeeded: nothing of what was there before, nothing a failed earlier
\* tier wrote, nothing of a lower tier.
C6_SuccessFileIsFirstSuccessfulBody ==
  okTier # 0 =>
    /\ thumbErr = Nil
    /\ file # NoFile
    /\ file = [i \in 1..BodyLen |-> <<RankedTiers[okTier], i>>]

C6_Witness ==
  /\ Returned
  /\ okTier = 3
  /\ leftover
  /\ fileBefore = OldFile
  /\ file = [i \in 1..BodyLen |-> <<"mqdefault", i>>]

\* C7: when captureRegularScreenshot has returned, on whatever path, the
\* launched browser, the browser connection and the page handle it acquired
\* are released and no deferred call is left to run.
C7_ResourcesReleasedOnReturn ==
  Returned => (~launcherUp /\ ~browserUp /\ ~pageUp /\ deferred = <<>>)

C7_Witness ==
  /\ Returned
  /\ renderCalls = 1
  /\ ctxDeadline # NoDeadline
  /\ renderErr = Err("failed to navigate to URL", "context deadline exceeded")
  /\ ~launcherUp /\ ~browserUp /\ ~pageUp

\* C8: config.Timeout is one deadline over the whole acquisition: the call
\* has returned by config.Timeout seconds after it started.
C8_SingleHardDeadline ==
  Returned => clock <= cfgTimeout

\* ------------------------------------------------------------------------
\* Error classifier (internal/errors)
\* ------------------------------------------------------------------------
\* pieces the drawn error messages are made of
Fragments ==
  { pTimeout, pDeadline, p404, pNotFound, p403, pForbidden, p500, p502, p503,
    pDns, pNoHost, pRefused, pReset, pBrowser, pLaunch,
    mUnknown, mUpperForbidden, mUpperDNS, m504, mSpace }

RECURSIVE Concat(_)
Concat(ss) == IF ss = <<>> THEN <<>> ELSE Head(ss) \o Concat(Tail(ss))

\* err.Error() of the errors drawn: 1..MaxFrags fragments, concatenated
Messages ==
  {Concat(fs) : fs \in UNION {[1..n -> Fragments] : n \in 1..MaxFrags}}

\* an error: its message, and whether its dynamic type implements net.Error
Errors == [msg : Messages, isNet : BOOLEAN]

\* categorizeError with the net.Error test moved to the front
categorizeError_NetFirst(e) ==
  LET errStr == ToLower(e.msg)
  IN IF e.isNet THEN "network_error"
     ELSE IF Contains(errStr, pTimeout) \/ Contains(errStr, pDeadline) THEN "timeout"
     ELSE IF Contains(errStr, p404) \/ Contains(errStr, pNotFound) THEN "not_found"
     ELSE IF Contains(errStr, p403) \/ Contains(errStr, pForbidden) THEN "forbidden"
     ELSE IF Contains(errStr, p500) \/ Contains(errStr, p502) \/ Contains(errStr, p503)
       THEN "server_error"
     ELSE IF Contains(errStr, pDns) \/ Contains(errStr, pNoHost) THEN "dns_error"
     ELSE IF Contains(errStr, pRefused) \/ Contains(errStr, pReset) THEN "connection_error"
     ELSE IF Contains(errStr, pBrowser) \/ Contains(errStr, pLaunch) THEN "browser_error"
     ELSE "unknown"

\* categorizeError that forgets strings.ToLower
categorizeError_CaseSensitive(e) ==
  LET errStr == e.msg
  IN IF Contains(errStr, pTimeout) \/ Contains(errStr, pDeadline) THEN "timeout"
     ELSE IF Contains(errStr, p404) \/ Contains(errStr, pNotFound) THEN "not_found"
     ELSE IF Contains(errStr, p403) \/ Contains(errStr, pForbidden) THEN "forbidden"
     ELSE IF Contains(errStr, p500) \/ Contains(errStr, p502) \/ Contains(errStr, p503)
       THEN "server_error"
     ELSE IF Contains(errStr, pDns) \/ Contains(errStr, pNoHost) THEN "dns_error"
     ELSE IF e.isNet THEN "network_error"
     ELSE IF Contains(errStr, pRefused) \/ Contains(errStr, pReset) THEN "connection_error"
     ELSE IF Contains(errStr, pBrowser) \/ Contains(errStr, pLaunch) THEN "browser_error"
     ELSE "unknown"

\* categorizeError(err)
categorizeError(e) ==
  LET errStr == ToLower(e.msg)
  IN IF Contains(errStr, pTimeout) \/ Contains(errStr, pDeadline) THEN "timeout"
     ELSE IF Contains(errStr, p404) \/ Contains(errStr, pNotFound) THEN "not_found"
     ELSE IF Contains(errStr, p403) \/ Contains(errStr, pForbidden) THEN "forbidden"
     ELSE IF Contains(errStr, p500) \/ Contains(errStr, p502) \/ Contains(errStr, p503)
       THEN "server_error"
     ELSE IF Contains(errStr, pDns) \/ Contains(errStr, pNoHost) THEN "dns_error"
     ELSE IF e.isNet THEN "network_error"
     ELSE IF Contains(errStr, pRefused) \/ Contains(errStr, pReset) THEN "connection_error"
     ELSE IF Contains(errStr, pBrowser) \/ Contains(errStr, pLaunch) THEN "browser_error"
     ELSE "unknown"

\* no error is being classified
ErrIdle ==
  /\ errv = [msg |-> <<>>, isNet |-> FALSE]
  /\ category = "pending"
  /\ RestIdle

\* no acquisition is running
AcqIdle ==
  /\ url = sInvalid
  /\ cfgTimeout = 1
  /\ pc = "off"
  /\ tier = 0
  /\ requested = <<>>
  /\ okTier = 0
  /\ fileBefore = NoFile
  /\ file = NoFile
  /\ leftover = FALSE
  /\ thumbErr = Pending
  /\ renderErr = Pending
  /\ result = Pending
  /\ renderCalls = 0
  /\ launcherUp = FALSE
  /\ browserUp = FALSE
  /\ pageUp = FALSE
  /\ deferred = <<>>
  /\ clock = 0
  /\ ctxDeadline = NoDeadline

ErrInit ==
  /\ errv \in Errors
  /\ category = "pending"
  /\ RestIdle

\* errorType := categorizeError(err), as NewScreenshotError does
Categorize ==
  /\ category = "pending"
  /\ category' = categorizeError(errv)
  /\ UNCHANGED <<errv, acqVars, restVars>>

Init == AcqInit /\ ErrIdle
Next == AcqNext
\* one acquisition
Spec == Init /\ [][Next]_vars

InitErr == AcqIdle /\ ErrInit
NextErr == Categorize
\* one classification of one error
SpecErr == InitErr /\ [][NextErr]_vars

\* ------------------------------------------------------------------------
\* Error classifier: properties
\* ------------------------------------------------------------------------
Taxonomy ==
  {"timeout", "not_found", "forbidden", "server_error", "dns_error",
   "network_error", "connection_error", "browser_error", "unknown"}

\* the message of e, case folded, holds the text t (written in lower case)
Says(e, t) ==
  \E i \in 0..(Len(e.msg) - Len(t)) :
    \A j \in 1..Len(t) : LowerChar(e.msg[i + j]) = t[j]

\* the rule of a category other than unknown
RuleHolds(label, e) ==
  CASE label = "timeout" -> Says(e, pTimeout) \/ Says(e, pDeadline)
    [] label = "not_found" -> Says(e, p404) \/ Says(e, pNotFound)
    [] label = "forbidden" -> Says(e, p403) \/ Says(e, pForbidden)
    [] label = "server_error" -> Says(e, p500) \/ Says(e, p502) \/ Says(e, p503)
    [] label = "dns_error" -> Says(e, pDns) \/ Says(e, pNoHost)
    [] label = "network_error" -> e.isNet
    [] label = "connection_error" -> Says(e, pRefused) \/ Says(e, pReset)
    [] label = "browser_error" -> Says(e, pBrowser) \/ Says(e, pLaunch)
    [] label = "unknown" -> TRUE

\* the category of the earliest rule of order that holds of e
FirstMatch(order, e) ==
  order[SetMin({i \in 1..Len(order) : RuleHolds(order[i], e)})]

\* C9: every error gets exactly one label of the nine-label taxonomy, and the
\* label is unknown exactly when the rule of no other category holds.
C9_OneLabelOfTaxonomy ==
  category # "pending" =>
    /\ category \in Taxonomy
    /\ Cardinality(Taxonomy) = 9
    /\ (category = "unknown") <=> (\A l \in Taxonomy \ {"unknown"} : ~RuleHolds(l, errv))

C9_Witness ==
  /\ category = "unknown"
  /\ errv.msg = mUnknown
  /\ ~errv.isNet

\* C10 as claimed: the rules are tried in the order timeout, not-found,
\* forbidden, server-error, DNS-error, connection-error, browser-error,
\* unknown, and an error for which a rule of that list holds gets the category
\* of the earliest such rule.
ClaimedOrder ==
  <<"timeout", "not_found", "forbidden", "server_error", "dns_error",
    "connection_error", "browser_error", "unknown">>

C10_ClaimedOrder ==
  (category # "pending" /\ FirstMatch(ClaimedOrder, errv) # "unknown") =>
    category = FirstMatch(ClaimedOrder, errv)

\* C10 amended: the order is timeout, not-found, forbidden, server-error,
\* DNS-error, network-error (the error implements net.Error),
\* connection-error, browser-error, unknown; every error gets the category of
\* the earliest rule of that order that holds of it.
CodeOrder ==
  <<"timeout", "not_found", "forbidden", "server_error", "dns_error",
    "network_error", "connection_error", "browser_error", "unknown">>

C10_FirstMatchWins ==
  category # "pending" => category = FirstMatch(CodeOrder, errv)

C10_Witness ==
  /\ category = "dns_error"
  /\ errv.isNet
  /\ errv.msg = pNoHost \o pRefused

\* ------------------------------------------------------------------------
\* Retry decision: NewScreenshotError, IsRetryableError, ShouldRetry
\* ------------------------------------------------------------------------
\* NewScreenshotError(url, day, err); the Timestamp field is left out, no
\* decision reads it
\* Message taken from the lower-cased text categorizeError works on
NewScreenshotError_LowerMessage(u, d, err) ==
  ScreenshotError(u, d, categorizeError(err), ToLower(err.msg))
NewScreenshotError(u, d, err) == ScreenshotError(u, d, categorizeError(err), err.msg)

retryablePatterns == <<pTimeout, pDeadline, pRefused, pReset, p502, p503, m504>>

\* IsRetryableError that matches the message of every error, classified or not
IsRetryableError_ByMessage(err) ==
  LET errStr == ToLower(err.msg)
  IN \E i \in 1..Len(retryablePatterns) : Contains(errStr, retryablePatterns[i])

\* IsRetryableError(err)
IsRetryableError(err) ==
  IF err.kind = "classified"
    THEN CASE err.errorType \in {"timeout", "server_error", "network_error",
                                 "connection_error"} -> TRUE
           [] err.errorType \in {"not_found", "forbidden", "dns_error",
                                 "browser_error"} -> FALSE
           [] OTHER -> FALSE
    ELSE LET errStr == ToLower(err.msg)
         IN \E i \in 1..Len(retryablePatterns) : Contains(errStr, retryablePatterns[i])

\* ShouldRetry without the test of attempt against MaxRetries
ShouldRetry_NoCap(mr, err, a) == IsRetryableError(err)

\* rc.ShouldRetry(err, attempt), mr being rc.MaxRetries
ShouldRetry(mr, err, a) == IF a >= mr THEN FALSE ELSE IsRetryableError(err)

\* messages of the raw errors drawn
RetryMessages ==
  Fragments \cup {pDns \o mSpace \o pRefused, pNotFound \o mSpace \o pReset,
                  m504 \o mSpace \o pTimeout}
RawErrors == {RawError(msg, n) : msg \in RetryMessages, n \in BOOLEAN}

\* *ScreenshotError values built by a caller, ErrorType being any string
ErrorTypes ==
  {"timeout", "not_found", "forbidden", "server_error", "dns_error",
   "network_error", "connection_error", "browser_error", "unknown", "rate_limited"}
ErrorURLs == {sArticle, sInvalid}
ErrorDays == 1..MaxDay
ClassifiedErrors ==
  {ScreenshotError(u, d, t, msg) :
     u \in ErrorURLs, d \in ErrorDays, t \in ErrorTypes, msg \in {pTimeout, p404, mUnknown}}

RetryInit ==
  /\ rerr \in RawErrors \cup ClassifiedErrors
  /\ wrapped = NoError
  /\ attempt \in 0..MaxAttempt
  /\ maxRetries \in 0..DefaultMaxRetries
  /\ rpc = "drawn"
  /\ retryable = FALSE
  /\ should = FALSE
  /\ shouldWrapped = FALSE
  /\ firstType = ""

\* the caller wraps a raw error
WrapError ==
  /\ rpc = "drawn"
  /\ rerr.kind = "raw"
  /\ \E u \in ErrorURLs, d \in ErrorDays : wrapped' = NewScreenshotError(u, d, rerr)
  /\ rpc' = "wrapped"
  /\ UNCHANGED <<rerr, attempt, maxRetries, retryable, should, shouldWrapped, firstType,
                 delayVars, resizeVars, docVars, errv, category, acqVars>>

\* the decisions on the error as it came and on its classified form
DecideRetry ==
  /\ \/ rpc = "wrapped"
     \/ rpc = "drawn" /\ rerr.kind = "classified"
  /\ retryable' = IsRetryableError(rerr)
  /\ should' = ShouldRetry(maxRetries, rerr, attempt)
  /\ shouldWrapped' =
       ShouldRetry(maxRetries, IF rerr.kind = "raw" THEN wrapped ELSE rerr, attempt)
  /\ rpc' = "decided"
  /\ UNCHANGED <<rerr, wrapped, attempt, maxRetries, firstType,
                 delayVars, resizeVars, docVars, errv, category, acqVars>>

ErrOff ==
  /\ errv = [msg |-> <<>>, isNet |-> FALSE]
  /\ category = "pending"

InitRetry == AcqIdle /\ ErrOff /\ RetryInit /\ DelayIdle /\ ResizeIdle /\ DocIdle
NextRetry == WrapError \/ DecideRetry
\* one retry decision on one error
SpecRetry == InitRetry /\ [][NextRetry]_vars

\* ------------------------------------------------------------------------
\* Retry decision: properties
\* ------------------------------------------------------------------------
RetryableCategories == {"timeout", "server_error", "network_error", "connection_error"}

\* classify(err): the category of an error, classified or raw
classify(err) == IF err.kind = "classified" THEN err.errorType ELSE categorizeError(err)

\* C11: for a classified error IsRetryableError is true exactly for the
\* categories timeout, server_error, network_error, connection_error, false
\* for the other five, and is the same for every URL, day and message.
C11_RetryableByCategoryOnly ==
  (rpc = "decided" /\ rerr.kind = "classified" /\ rerr.errorType \in Taxonomy) =>
    /\ retryable = (rerr.errorType \in RetryableCategories)
    /\ \A u \in ErrorURLs, d \in ErrorDays, msg \in {pTimeout, p404, mUnknown} :
         IsRetryableError(ScreenshotError(u, d, rerr.errorType, msg)) = retryable

C11_Witness ==
  /\ rpc = "decided"
  /\ rerr = ScreenshotError(sArticle, 1, "server_error", p404)
  /\ retryable

\* C12: ShouldRetry(err, attempt) = (attempt < MaxRetries and the category of
\* err is retryable) for every error, classified or raw, so the decision on
\* a raw error equals the decision on that error once wrapped.
C12_RawDecisionEqualsClassifiedDecision ==
  rpc = "decided" =>
    /\ should = (attempt < maxRetries /\ classify(rerr) \in RetryableCategories)
    /\ should = shouldWrapped

\* C13: ShouldRetry is false whenever attempt >= MaxRetries, false at every
\* attempt for an error of a non-retryable category, and with MaxRetries = 3
\* a timeout error is retried at attempts 0, 1, 2 and not at 3.
C13_NoRetryPastCapOrForTerminalCategory ==
  rpc = "decided" =>
    /\ attempt >= maxRetries => ~should
    /\ classify(rerr) \notin RetryableCategories => ~should
    /\ (classify(rerr) = "timeout" /\ maxRetries = DefaultMaxRetries) =>
         (should <=> attempt \in {0, 1, 2})

\* C23: NewScreenshotError(url, day, err) carries url, day, the message of
\* err unchanged and the category categorizeError(err); the category is the
\* same whatever url and day are
C23_WrappedErrorKeepsOrigin ==
  (rpc \in {"wrapped", "decided"} /\ rerr.kind = "raw") =>
    /\ wrapped.kind = "classified"
    /\ wrapped.msg = rerr.msg
    /\ wrapped.errorType = categorizeError(rerr)
    /\ wrapped.url \in ErrorURLs /\ wrapped.day \in ErrorDays
    /\ \A u \in ErrorURLs, d \in ErrorDays :
         LET e == NewScreenshotError(u, d, rerr)
         IN /\ e.url = u /\ e.day = d
            /\ e.msg = rerr.msg
            /\ e.errorType = wrapped.errorType

\* an error whose message has upper-case letters has been wrapped
C23_Witness ==
  /\ rpc = "wrapped"
  /\ rerr.msg = mUpperForbidden
  /\ wrapped.msg = mUpperForbidden
  /\ wrapped.errorType = "forbidden"
  /\ wrapped.day = MaxDay

\* ------------------------------------------------------------------------
\* Backoff delay: GetDelay
\* ------------------------------------------------------------------------
\* Durations (int64 nanoseconds) and float64 values are pairs m * 2^e, so
\* that values near 2^63 are compared without being written out.
RECURSIVE BitLen(_)
BitLen(n) == IF n = 0 THEN 0 ELSE 1 + BitLen(n \div 2)

RECURSIVE Pow2(_)
Pow2(k) == IF k = 0 THEN 1 ELSE 2 * Pow2(k - 1)

\* v < 2^Magnitude(v), and 2^(Magnitude(v) - 1) <= v when v > 0
Magnitude(v) == BitLen(v.m) + v.e

Times(a, b) == Num(a.m * b.m, a.e + b.e)
Negated(a) == Num(0 - a.m, a.e)

\* a < b for a, b >= 0
PosLess(a, b) ==
  IF b.m = 0 THEN FALSE
  ELSE IF a.m = 0 THEN TRUE
  ELSE IF Magnitude(a) # Magnitude(b) THEN Magnitude(a) < Magnitude(b)
  ELSE LET E == Min(a.e, b.e)
       IN a.m * Pow2(a.e - E) < b.m * Pow2(b.e - E)

NumLess(a, b) ==
  IF a.m < 0 THEN b.m >= 0 \/ PosLess(Negated(b), Negated(a))
  ELSE b.m >= 0 /\ PosLess(a, b)

NumEq(a, b) == ~NumLess(a, b) /\ ~NumLess(b, a)

Nanosecond == Num(1, 0)
\* time.Millisecond = 1000000 ns = 15625 * 2^6
Millisecond == Num(15625, 6)
\* time.Second = 1000000000 ns = 1953125 * 2^9
Second == Num(1953125, 9)
Seconds(n) == Times(Num(n, 0), Second)

\* math.MinInt64 = -2^63
MinInt64 == Num(-1, 63)
\* math.MaxInt64 = 2^63 - 1, written 2^63: it is only compared with durations
\* below 2^62, for which the two compare alike
MaxInt64 == Num(1, 63)

\* time.Duration(x) for a float64 x >= 0 that is a whole number: x itself when
\* x < 2^63; otherwise the value is implementation-dependent, conv naming
\* what the build yields ("min": amd64, "max": saturating targets as arm64)
Duration(x, conv) ==
  IF Magnitude(x) <= 63 THEN x
  ELSE IF conv = "min" THEN MinInt64 ELSE MaxInt64

\* multiplier after the loop multiplier *= rc.BackoffFactor has run attempt
\* times, the factor being 2^factorLog: the products are exact in float64
Multiplier(rc, a) == Num(1, rc.factorLog * Max(a, 0))

\* rc.GetDelay(attempt)
GetDelay(rc, a, conv) ==
  LET d == Duration(Times(rc.initial, Multiplier(rc, a)), conv)
  IN IF NumLess(rc.max, d) THEN rc.max ELSE d

\* policies drawn: InitialDelay > 0, BackoffFactor in {2, 4, ...}, MaxDelay >=
\* InitialDelay; they include NewDefaultRetryConfig (1s, 2.0, 30s)
Policies ==
  {rc \in [initial : {Nanosecond, Millisecond, Second},
           factorLog : 1..MaxFactorLog,
           max : {Second, Seconds(10), Seconds(30)}] : ~NumLess(rc.max, rc.initial)}

DelayInit ==
  /\ policy \in Policies
  /\ dAttempt \in 0..MaxDelayAttempt
  /\ delay = Zero
  /\ delayNext = Zero
  /\ dpc = "drawn"

\* GetDelay(attempt) and GetDelay(attempt + 1), on one build
ComputeDelay ==
  /\ dpc = "drawn"
  /\ \E conv \in {"min", "max"} :
       /\ delay' = GetDelay(policy, dAttempt, conv)
       /\ delayNext' = GetDelay(policy, dAttempt + 1, conv)
  /\ dpc' = "done"
  /\ UNCHANGED <<policy, dAttempt, retryVars, resizeVars, docVars, errv, category, acqVars>>

InitDelay == AcqIdle /\ ErrOff /\ RetryIdle /\ DelayInit /\ ResizeIdle /\ DocIdle
NextDelay == ComputeDelay
\* one delay computation
SpecDelay == InitDelay /\ [][NextDelay]_vars

\* ------------------------------------------------------------------------
\* Backoff delay: properties
\* ------------------------------------------------------------------------
\* min(InitialDelay * BackoffFactor^attempt, MaxDelay), computed exactly
ExactDelay(rc, a) ==
  LET p == Num(rc.initial.m, rc.initial.e + rc.factorLog * a)
  IN IF NumLess(rc.max, p) THEN rc.max ELSE p

\* C14: for every policy with InitialDelay > 0, BackoffFactor > 1, MaxDelay >=
\* InitialDelay and every attempt >= 0, GetDelay(attempt) =
\* min(InitialDelay * BackoffFactor^attempt, MaxDelay), so it is never above
\* MaxDelay and never below InitialDelay.
C14_DelayIsClampedExponential ==
  dpc = "done" =>
    /\ NumEq(delay, ExactDelay(policy, dAttempt))
    /\ ~NumLess(policy.max, delay)
    /\ ~NumLess(delay, policy.initial)

\* C15: GetDelay(a + 1) > GetDelay(a) while GetDelay(a) < MaxDelay, and
\* GetDelay(a + 1) = MaxDelay once GetDelay(a) = MaxDelay.
C15_DelayIncreasesUntilClamped ==
  dpc = "done" =>
    /\ NumLess(delay, policy.max) => NumLess(delay, delayNext)
    /\ NumEq(delay, policy.max) => NumEq(delayNext, policy.max)

\* C14 and C15 hold of every computation whose product stays below 2^63
DelayInRange ==
  (dpc = "done" /\ Magnitude(Times(policy.initial, Multiplier(policy, dAttempt + 1))) <= 63) =>
    /\ NumEq(delay, ExactDelay(policy, dAttempt))
    /\ NumLess(delay, policy.max) => NumLess(delay, delayNext)
    /\ NumEq(delay, policy.max) => NumEq(delayNext, policy.max)

\* ------------------------------------------------------------------------
\* Caller-driven retry loop
\* ------------------------------------------------------------------------
\* The loop is the caller's: an acquisition is run, its failure is classified
\* once (NewScreenshotError), ShouldRetry decides on the classified error,
\* and a retry follows the backoff delay.
\*   attempt := 0
\*   for { err := acquire(); if err == nil { return }
\*         if !rc.ShouldRetry(classified(err), attempt) { report; return }
\*         sleep(rc.GetDelay(attempt)); attempt++ }
DefaultPolicy == [initial |-> Second, factorLog |-> 1, max |-> Seconds(30)]

\* raw failures an acquisition of the loop can end with
LoopFailures ==
  {RawError(msg, n) :
     msg \in {pTimeout, p404, p403, p500, pNoHost, pRefused, pBrowser, mUnknown, mSpace},
     n \in BOOLEAN}

LoopInit ==
  /\ rerr = NoError
  /\ wrapped = NoError
  /\ attempt = 0
  /\ maxRetries \in 0..DefaultMaxRetries
  /\ rpc = "run"
  /\ retryable = FALSE
  /\ should = FALSE
  /\ shouldWrapped = FALSE
  /\ firstType = ""
  /\ policy = DefaultPolicy
  /\ dAttempt = 0
  /\ delay = Zero
  /\ delayNext = Zero
  /\ dpc = "off"

\* the acquisition returns nil
AcquireSucceeds ==
  /\ rpc = "run"
  /\ rpc' = "succeeded"
  /\ UNCHANGED <<rerr, wrapped, attempt, maxRetries, retryable, should, shouldWrapped,
                 firstType, delayVars, resizeVars, docVars, errv, category, acqVars>>

\* the acquisition fails and its failure is classified
AcquireFails ==
  /\ rpc = "run"
  /\ \E e \in LoopFailures :
       /\ rerr' = e
       /\ wrapped' = NewScreenshotError(sArticle, 1, e)
       /\ firstType' = IF attempt = 0 THEN categorizeError(e) ELSE firstType
  /\ rpc' = "failed"
  /\ UNCHANGED <<attempt, maxRetries, retryable, should, shouldWrapped,
                 delayVars, resizeVars, docVars, errv, category, acqVars>>

\* the failure is reported unless ShouldRetry allows a retry
LoopDecide ==
  /\ rpc = "failed"
  /\ should' = ShouldRetry(maxRetries, wrapped, attempt)
  /\ rpc' = IF should' THEN "backoff" ELSE "reported"
  /\ UNCHANGED <<rerr, wrapped, attempt, maxRetries, retryable, shouldWrapped,
                 firstType, delayVars, resizeVars, docVars, errv, category, acqVars>>

\* the loop sleeps GetDelay(attempt), counts the attempt and runs again
Backoff ==
  /\ rpc = "backoff"
  /\ attempt < MaxLoopAttempts
  /\ \E conv \in {"min", "max"} : delay' = GetDelay(policy, attempt, conv)
  /\ attempt' = attempt + 1
  /\ rpc' = "run"
  /\ UNCHANGED <<rerr, wrapped, maxRetries, retryable, should, shouldWrapped, firstType,
                 policy, dAttempt, delayNext, dpc, resizeVars, docVars, errv, category, acqVars>>

InitLoop == AcqIdle /\ ErrOff /\ LoopInit /\ ResizeIdle /\ DocIdle
NextLoop == AcquireSucceeds \/ AcquireFails \/ LoopDecide \/ Backoff
\* one retry loop; the loop is sequential code of one goroutine and every
\* acquisition returns, so a step that can be taken is taken
SpecLoop == InitLoop /\ [][NextLoop]_vars /\ WF_vars(NextLoop)

\* C16: a retry loop that starts at attempt 0, re-runs only while
\* ShouldRetry(err, attempt) and counts one attempt per failure terminates; it
\* retries at most MaxRetries times, and not at all, reporting at once, when
\* the first failure is of a non-retryable category.
C16_RetryLoopTerminates ==
  /\ [](attempt <= maxRetries)
  /\ []((firstType # "" /\ firstType \notin RetryableCategories) =>
          (attempt = 0 /\ rpc \in {"failed", "reported"}))
  /\ <>(rpc \in {"reported", "succeeded"})

C16_Witness ==
  /\ rpc = "reported"
  /\ maxRetries = DefaultMaxRetries
  /\ attempt = 3
  /\ firstType = "timeout"
  /\ wrapped.errorType = "timeout"

\* ------------------------------------------------------------------------
\* Images: the operations of the imaging library that SmartCrop calls
\* ------------------------------------------------------------------------
IsEmpty(im) == im.w <= 0 \/ im.h <= 0

\* math.Floor(n/d + 0.5) and math.Ceil(n/d) for n >= 0, d > 0
RoundDiv(n, d) == (2 * n + d) \div (2 * d)
CeilDiv(n, d) == (n + d - 1) \div d

\* imaging.Crop(img, image.Rect(x0, y0, x1, y1)): the rectangle is
\* intersected with the bounds of img
Crop(im, x0, y0, x1, y1) ==
  LET ax == Max(x0, 0)
      ay == Max(y0, 0)
      bx == Min(x1, im.w)
      by == Min(y1, im.h)
  IN IF ax >= bx \/ ay >= by THEN EmptyImage
     ELSE [im EXCEPT !.w = bx - ax, !.h = by - ay,
                     !.cutLeft = @ \/ ax > 0, !.cutRight = @ \/ bx < im.w,
                     !.cutTop = @ \/ ay > 0, !.cutBottom = @ \/ by < im.h]

\* imaging.Resize(img, w, h, filter): a zero w or h keeps the aspect ratio
Resize(im, w, h) ==
  IF w < 0 \/ h < 0 \/ (w = 0 /\ h = 0) \/ IsEmpty(im) THEN EmptyImage
  ELSE [im EXCEPT !.w = IF w = 0 THEN Max(1, RoundDiv(h * im.w, im.h)) ELSE w,
                  !.h = IF h = 0 THEN Max(1, RoundDiv(w * im.h, im.w)) ELSE h]

\* imaging.CropAnchor anchored at the top left corner
CropAnchor_Top(im, w, h) == Crop(im, 0, 0, w, h)

\* imaging.CropAnchor(img, w, h, imaging.Center)
CropAnchor(im, w, h) ==
  LET x0 == (im.w - w) \div 2
      y0 == (im.h - h) \div 2
  IN Crop(im, x0, y0, x0 + w, y0 + h)

\* imaging.Fill(img, w, h, imaging.Center, filter): the result has the size
\* (w, h); the source is scaled to cover it and its excess is cut centred
Fill(im, w, h) ==
  IF w <= 0 \/ h <= 0 \/ IsEmpty(im) THEN EmptyImage
  ELSE IF im.w = w /\ im.h = h THEN im
  ELSE IF im.w >= 100 /\ im.h >= 100
    THEN \* crop to the target's aspect ratio, then resize
         IF im.w * h < w * im.h
           THEN Resize(CropAnchor(im, im.w, Max(1, CeilDiv(im.w * h, w))), w, h)
           ELSE Resize(CropAnchor(im, Max(1, CeilDiv(im.h * w, h)), im.h), w, h)
    ELSE \* resize to cover the target, then crop
         IF im.w * h < w * im.h
           THEN CropAnchor(Resize(im, w, 0), w, h)
           ELSE CropAnchor(Resize(im, 0, h), w, h)

\* imaging.Sharpen(img, sigma) keeps the size
Sharpen(im) == im

\* ------------------------------------------------------------------------
\* SmartCrop
\* ------------------------------------------------------------------------
\* int(x) of a float64 quotient or product whose exact value is n/d: the
\* floor of n/d, or one less when n/d is a whole number and the rounded
\* float64 operation lands below it (low)
IntOf(n, d, low) == IF n % d = 0 /\ low THEN (n \div d) - 1 ELSE n \div d

\* a first pass that cuts the excess of the longer side: the width when the
\* source is wider than the target, the height when it is taller
FirstPass_CropsExcess(im, tw, th, low) ==
  IF im.w * th > tw * im.h
    THEN [Crop(im, 0, 0, IntOf(im.h * tw, th, low), im.h) EXCEPT !.pass = "crop-width"]
  ELSE IF im.w * th < tw * im.h
    THEN [Crop(im, 0, 0, im.w, IntOf(im.w * th, tw, low)) EXCEPT !.pass = "crop-height"]
  ELSE [Resize(im, tw, th) EXCEPT !.pass = "scale"]

\* the if/else chain of SmartCrop before imaging.Fill; the two ratios are
\* compared by cross-multiplication, which agrees with the float64
\* comparison for the sizes drawn
FirstPass(im, tw, th, low) ==
  IF im.w * th > tw * im.h
    THEN LET newHeight == IntOf(im.w * th, tw, low)
         IN IF newHeight <= im.h
              THEN [Crop(im, 0, 0, im.w, newHeight) EXCEPT !.pass = "crop-height"]
              ELSE [Resize(im, tw, 0) EXCEPT !.pass = "resize-width"]
  ELSE IF im.w * th < tw * im.h
    THEN LET newWidth == IntOf(im.h * tw, th, low)
         IN IF newWidth <= im.w
              THEN [Crop(im, 0, 0, newWidth, im.h) EXCEPT !.pass = "crop-width"]
              ELSE [Resize(im, 0, th) EXCEPT !.pass = "resize-height"]
  ELSE [Resize(im, tw, th) EXCEPT !.pass = "scale"]

\* SmartCrop without the call of imaging.Fill
SmartCrop_NoFill(im, tw, th, low) == Sharpen(FirstPass(im, tw, th, low))

\* SmartCrop(img, targetWidth, targetHeight)
SmartCrop(im, tw, th, low) == Sharpen(Fill(FirstPass(im, tw, th, low), tw, th))

Twitter == [Width |-> 1200, Height |-> 628]
LinkedIn == [Width |-> 1200, Height |-> 627]

SmallSizes == (1..MaxDim) \X (1..MaxDim)
\* sizes of the sources drawn: those of TestSmartCrop, sizes that take each
\* branch of the first pass for the platform targets, and small ones
SourceSizes ==
  {<<1920, 1080>>, <<1000, 1000>>, <<600, 800>>, <<400, 300>>,
   <<1920, 1004>>, <<1910, 1000>>, <<2400, 1256>>, <<2400, 1254>>} \cup SmallSizes
Sources == {Image(z[1], z[2]) : z \in SourceSizes}
Targets == {Twitter, LinkedIn} \cup {[Width |-> z[1], Height |-> z[2]] : z \in SmallSizes}

CropInit ==
  /\ cSrc \in Sources
  /\ cTarget \in Targets
  /\ cOut = EmptyImage
  /\ cpc = "drawn"

CallSmartCrop ==
  /\ cpc = "drawn"
  /\ \E low \in BOOLEAN : cOut' = SmartCrop(cSrc, cTarget.Width, cTarget.Height, low)
  /\ cpc' = "done"
  /\ UNCHANGED <<cSrc, cTarget, rszVars, docVars, retryVars, delayVars, errv, category, acqVars>>

InitCrop == AcqIdle /\ ErrOff /\ RetryIdle /\ DelayIdle /\ CropInit /\ RszIdle /\ DocIdle
NextCrop == CallSmartCrop
\* one call of SmartCrop
SpecCrop == InitCrop /\ [][NextCrop]_vars

\* C17: for every source and every target (w, h), SmartCrop returns an image
\* of width w and height h, whatever branch is taken.
C17_OutputHasTargetSize ==
  cpc = "done" => (cOut.w = cTarget.Width /\ cOut.h = cTarget.Height)

C17_Witness ==
  /\ cpc = "done"
  /\ cSrc = Image(400, 300)
  /\ cTarget = Twitter
  /\ cOut.pass = "resize-height"
  /\ cOut.w = 1200
  /\ cOut.h = 628

Is1920x1080ToTwitter == cSrc = Image(1920, 1080) /\ cTarget = Twitter

sDayPrefix == <<"d", "a", "y", "-">>
sShotSuffix == <<"-", "s", "c", "r", "e", "e", "n", "s", "h", "o", "t">>
sPng == <<".", "p", "n", "g">>
sDash == <<"-">>
sSlash == <<"/">>
sDot == <<".">>
sTwitter == <<"t", "w", "i", "t", "t", "e", "r">>
sLinkedin == <<"l", "i", "n", "k", "e", "d", "i", "n">>
sOriginalKey == <<"o", "r", "i", "g", "i", "n", "a", "l">>
sOriginalPng == <<"o", "r", "i", "g", "i", "n", "a", "l", ".", "p", "n", "g">>
sTestShot == <<"t", "e", "s", "t", "-", "s", "c", "r", "e", "e", "n", "s", "h", "o", "t", ".", "p", "n", "g">>
sNoExt == <<"s", "h", "o", "t">>
sOutDir == <<"o", "u", "t">>

SetMax(S) == CHOOSE x \in S : \A y \in S : x >= y

\* fmt.Sprintf("%d", n)
RECURSIVE Itoa(_)
Itoa(n) ==
  IF n < 0 THEN sDash \o Itoa(0 - n)
  ELSE IF n < 10 THEN <<Digits[n + 1]>>
  ELSE Itoa(n \div 10) \o <<Digits[(n % 10) + 1]>>

\* filepath.Ext: the suffix that starts at the last dot of the last element
Ext(path) ==
  LET dots == {i \in 1..Len(path) :
                 path[i] = "." /\ \A j \in i..Len(path) : path[j] # "/"}
  IN IF dots = {} THEN <<>> ELSE SubSeq(path, SetMax(dots), Len(path))

\* strings.TrimSuffix
TrimSuffix(str, suffix) ==
  IF Len(suffix) <= Len(str) /\ SubSeq(str, Len(str) - Len(suffix) + 1, Len(str)) = suffix
  THEN SubSeq(str, 1, Len(str) - Len(suffix))
  ELSE str

\* filepath.Dir of a clean path
Dir(path) ==
  LET seps == {i \in 1..Len(path) : path[i] = "/"}
  IN IF seps = {} THEN sDot
     ELSE LET k == SetMax(seps)
          IN IF k = 1 THEN sSlash ELSE SubSeq(path, 1, k - 1)

\* filepath.Join(dir, name) of a clean dir and a file name
Join(dir, name) ==
  IF dir = sDot THEN name
  ELSE IF dir = sSlash THEN sSlash \o name
  ELSE dir \o sSlash \o name

\* GenerateBaseFilename(day)
GenerateBaseFilename(day) == sDayPrefix \o Itoa(day) \o sShotSuffix \o sPng

PlatformConfigs == [p \in {sTwitter, sLinkedin} |-> IF p = sTwitter THEN Twitter ELSE LinkedIn]

\* GenerateSocialMediaFilenames(day), cfg being the keys of PlatformConfigs
GenerateSocialMediaFilenames(cfg, day) ==
  [p \in cfg |-> (sDayPrefix \o Itoa(day) \o sShotSuffix) \o sDash \o p \o sPng]

\* GenerateAllFilenames(day)
GenerateAllFilenames(cfg, day) ==
  [k \in cfg \cup {sOriginalKey} |->
     IF k \in cfg THEN GenerateSocialMediaFilenames(cfg, day)[k]
     ELSE sDayPrefix \o Itoa(day) \o sShotSuffix \o sPng]

\* platformFilename built from baseFilename with its extension left in
PlatformFilename_KeepExt(base, p) == base \o sDash \o p \o sPng

\* nameWithoutExt and platformFilename of ResizeForSocialMedia
PlatformFilename(base, p) == TrimSuffix(base, Ext(base)) \o sDash \o p \o sPng

\* platformPath of ResizeForSocialMedia
PlatformPath(orig, base, p) == Join(Dir(orig), PlatformFilename(base, p))

\* ------------------------------------------------------------------------
\* ResizeForSocialMedia
\* ------------------------------------------------------------------------
File(path, im) == [path |-> path, img |-> im]

\* imaging.Save(img, path): the file at path is created or replaced
Save(d, path, im) == {f \in d : f.path # path} \cup {File(path, im)}

\* the source the next iteration uses, were each result fed to the next
SourceAfter_Chained(source, resized) == resized

\* the source the next iteration uses: resizedImg is a variable of its own
\* and img is not assigned in the loop
SourceAfter(source, resized) == source

FileDays == (0..MaxDay) \cup {12}
BaseFilenames == {GenerateBaseFilename(d) : d \in FileDays} \cup {sTestShot, sNoExt}
OriginalFiles ==
  {Join(sOutDir, GenerateBaseFilename(d)) : d \in FileDays} \cup
  {sOriginalPng, Join(sOutDir, sOriginalPng)}
ResizeSources == {Image(1920, 1080), Image(400, 300), Image(2, 3)}

RszInit ==
  /\ originalFile \in OriginalFiles
  /\ baseFilename \in BaseFilenames
  /\ configured \in SUBSET (DOMAIN PlatformConfigs)
  /\ todo = {}
  /\ img = EmptyImage
  /\ img0 \in ResizeSources
  /\ \E stale \in BOOLEAN :
       disk0 = {File(originalFile, img0)} \cup
               (IF stale THEN {File(PlatformPath(originalFile, baseFilename, sTwitter),
                                    Image(1, 1))}
                ELSE {})
  /\ disk = disk0
  /\ rzErr = "pending"
  /\ zpc = "start"

\* imaging.Open succeeds; the range loop starts
OpenImage ==
  /\ zpc = "start"
  /\ img' = img0
  /\ todo' = configured
  /\ zpc' = "loop"
  /\ UNCHANGED <<originalFile, baseFilename, configured, img0, disk, disk0, rzErr,
                 cropVars, docVars, retryVars, delayVars, errv, category, acqVars>>

\* imaging.Open fails: "failed to open image"
OpenFails ==
  /\ zpc = "start"
  /\ rzErr' = "open"
  /\ zpc' = "done"
  /\ UNCHANGED <<originalFile, baseFilename, configured, todo, img, img0, disk, disk0,
                 cropVars, docVars, retryVars, delayVars, errv, category, acqVars>>

\* one iteration of the range loop, in the order the map yields its keys
DerivePlatform ==
  /\ zpc = "loop"
  /\ \E p \in todo, low \in BOOLEAN :
       LET config == PlatformConfigs[p]
           resizedImg == SmartCrop(img, config.Width, config.Height, low)
       IN /\ disk' = Save(disk, PlatformPath(originalFile, baseFilename, p), resizedImg)
          /\ img' = SourceAfter(img, resizedImg)
          /\ todo' = todo \ {p}
  /\ UNCHANGED <<originalFile, baseFilename, configured, img0, disk0, rzErr, zpc,
                 cropVars, docVars, retryVars, delayVars, errv, category, acqVars>>

\* imaging.Save fails in an iteration: "failed to save ... optimized image";
\* the file may have been created before the failure
SaveFails ==
  /\ zpc = "loop"
  /\ \E p \in todo, created \in BOOLEAN :
       disk' = IF created
                 THEN Save(disk, PlatformPath(originalFile, baseFilename, p), EmptyImage)
                 ELSE disk
  /\ rzErr' = "save"
  /\ zpc' = "done"
  /\ UNCHANGED <<originalFile, baseFilename, configured, todo, img, img0, disk0,
                 cropVars, docVars, retryVars, delayVars, errv, category, acqVars>>

\* the loop is over: return nil
ReturnNil ==
  /\ zpc = "loop"
  /\ todo = {}
  /\ rzErr' = "nil"
  /\ zpc' = "done"
  /\ UNCHANGED <<originalFile, baseFilename, configured, todo, img, img0, disk, disk0,
                 cropVars, docVars, retryVars, delayVars, errv, category, acqVars>>

InitResize == AcqIdle /\ ErrOff /\ RetryIdle /\ DelayIdle /\ CropIdle /\ RszInit /\ DocIdle
NextResize == OpenImage \/ OpenFails \/ DerivePlatform \/ SaveFails \/ ReturnNil
\* one call of ResizeForSocialMedia
SpecResize == InitResize /\ [][NextResize]_vars

\* ------------------------------------------------------------------------
\* ResizeForSocialMedia: properties
\* ------------------------------------------------------------------------
FilesAt(d, path) == {f \in d : f.path = path}

\* the images SmartCrop can return for the source im and the platform p
DerivedFrom(im, p) ==
  {SmartCrop(im, PlatformConfigs[p].Width, PlatformConfigs[p].Height, low) : low \in BOOLEAN}

\* C19: every platform's image is derived from the same unmodified source:
\* whatever platforms are configured and in whatever order they are visited,
\* the image saved for a platform is SmartCrop of the opened image for that
\* platform's size, and no iteration changes the source.
C19_EachPlatformFromTheSource ==
  (zpc = "loop" \/ (zpc = "done" /\ rzErr = "nil")) =>
    /\ img = img0
    /\ \A p \in configured \ todo :
         \A f \in FilesAt(disk, PlatformPath(originalFile, baseFilename, p)) :
           f.img \in DerivedFrom(img0, p)
    /\ \A p \in configured \ todo :
         FilesAt(disk, PlatformPath(originalFile, baseFilename, p)) # {}

C19_Witness ==
  /\ zpc = "done"
  /\ rzErr = "nil"
  /\ configured = {sTwitter, sLinkedin}
  /\ img0 = Image(1920, 1080)
  /\ img = img0
  /\ \E f \in disk : f.img.w = 1200 /\ f.img.h = 627

\* baseFilename without its extension: what precedes its last dot
WithoutExtension(name) ==
  LET dots == {i \in 1..Len(name) : name[i] = "."}
  IN IF dots = {} THEN name ELSE SubSeq(name, 1, SetMax(dots) - 1)

\* {baseName}-{platform}.png in the directory of the original
DerivedPath(p) ==
  Join(Dir(originalFile), WithoutExtension(baseFilename) \o sDash \o p \o sPng)

\* C20: after a successful ResizeForSocialMedia there is exactly one derived
\* file per configured platform, in the directory of the original, named
\* {baseName}-{platform}.png and of that platform's size (twitter 1200x628,
\* linkedin 1200x627), no other file is touched, and for the base name
\* GenerateBaseFilename(day) the names are those of
\* GenerateSocialMediaFilenames(day) and GenerateAllFilenames(day).
C20_OneNamedFilePerPlatform ==
  (zpc = "done" /\ rzErr = "nil") =>
    /\ \A p \in configured :
         /\ Cardinality(FilesAt(disk, DerivedPath(p))) = 1
         /\ \A f \in FilesAt(disk, DerivedPath(p)) :
              /\ f.img.w = PlatformConfigs[p].Width
              /\ f.img.h = PlatformConfigs[p].Height
              /\ p = sTwitter => (f.img.w = 1200 /\ f.img.h = 628)
              /\ p = sLinkedin => (f.img.w = 1200 /\ f.img.h = 627)
    /\ Cardinality({DerivedPath(p) : p \in configured}) = Cardinality(configured)
    /\ {f \in disk : \A p \in configured : f.path # DerivedPath(p)}
         = {f \in disk0 : \A p \in configured : f.path # DerivedPath(p)}
    /\ \A d \in FileDays :
         baseFilename = GenerateBaseFilename(d) =>
           /\ GenerateAllFilenames(configured, d)[sOriginalKey] = baseFilename
           /\ \A p \in configured :
                /\ DerivedPath(p) = Join(Dir(originalFile),
                                         GenerateSocialMediaFilenames(configured, d)[p])
                /\ GenerateAllFilenames(configured, d)[p]
                     = GenerateSocialMediaFilenames(configured, d)[p]

C20_Witness ==
  /\ zpc = "done"
  /\ rzErr = "nil"
  /\ configured = {sTwitter, sLinkedin}
  /\ baseFilename = GenerateBaseFilename(12)
  /\ originalFile = Join(sOutDir, GenerateBaseFilename(12))
  /\ Cardinality(disk) = 3
  /\ Cardinality(disk0) = 2

\* ------------------------------------------------------------------------
\* URL classification (isYouTubeURL, extractYouTubeVideoID and the test at
\* the head of CaptureScreenshot) as one call on a drawn URL
\* ------------------------------------------------------------------------
\* a URL is scheme, host prefix, path shape, identifier and tail, concatenated
UrlSchemes == {sHttp, sHttps, sFtp, <<>>}
UrlHosts == {<<>>, sWww, sMobile}
UrlShapes == {sWatch, sShort, sEmbed, sArticle}
UrlIds == {sVideoID, sBadID, <<>>}
\* no tail, a further parameter, a parameter that holds a watch-page URL,
\* a parameter that holds a short link
UrlTails == {<<>>, sParam, sQuery \o sWatch \o sOtherID, sQuery \o sShort \o sOtherID}
UrlParts ==
  [scheme : UrlSchemes, host : UrlHosts, shape : UrlShapes, id : UrlIds, tail : UrlTails]
UrlOf(parts) == parts.scheme \o parts.host \o parts.shape \o parts.id \o parts.tail

\* the URL is made as one of the three forms the classifier knows
KnownShape(parts) ==
  /\ parts.scheme \in {sHttp, sHttps}
  /\ parts.host \in {<<>>, sWww}
  /\ parts.shape \in {sWatch, sShort, sEmbed}
\* length of the prefix youtubeURLRegex matched
ShapePrefixLen(parts) == Len(parts.scheme) + Len(parts.host) + Len(parts.shape)
\* 11 characters of the identifier class follow the prefix
IdFollowsPrefix(parts) ==
  /\ Len(UrlOf(parts)) >= ShapePrefixLen(parts) + idLen
  /\ \A j \in 1..idLen : UrlOf(parts)[ShapePrefixLen(parts) + j] \in IdChars

UrlInit ==
  /\ uIn \in UrlParts
  /\ uStr = UrlOf(uIn)
  /\ uVideo = FALSE
  /\ uID = NoID
  /\ uThumb = FALSE
  /\ upc = "drawn"

\* isYouTubeURL(url), extractYouTubeVideoID(url), and whether lines 153-155
\* of CaptureScreenshot reach downloadThumbnailWithFallback
ClassifyURL ==
  /\ upc = "drawn"
  /\ uVideo' = isYouTubeURL(uStr)
  /\ uID' = extractYouTubeVideoID(uStr)
  /\ uThumb' = TriesThumbnail(uStr)
  /\ upc' = "done"
  /\ UNCHANGED <<uIn, uStr, mdVars, retryVars, delayVars, resizeVars, errv, category, acqVars>>

InitUrl == AcqIdle /\ ErrOff /\ RetryIdle /\ DelayIdle /\ ResizeIdle /\ UrlInit /\ MdIdle
NextUrl == ClassifyURL

SpecUrl == InitUrl /\ [][NextUrl]_vars

\* C21: a URL of a known video-host shape is classified as a video host, and
\* the identifier extracted from it is the 11 identifier characters that
\* directly follow the prefix it was classified by, never characters found
\* elsewhere in the URL
C21_IdentifierFollowsClassifyingPrefix ==
  (upc = "done" /\ KnownShape(uIn)) =>
    /\ uVideo
    /\ IdFollowsPrefix(uIn) => uID.ok
    /\ uID.ok => /\ IdFollowsPrefix(uIn)
                 /\ uID.id = Slice(uStr, ShapePrefixLen(uIn), idLen)

\* C22: a string that is not of a known video-host shape is Generic (not a
\* video host) and no thumbnail is requested for it; a video-host URL whose
\* identifier cannot be extracted is reported as a video host with an
\* extraction error, which Generic never is, and no thumbnail is requested
C22_NonMatchingIsGeneric ==
  upc = "done" =>
    /\ ~KnownShape(uIn) => (~uVideo /\ ~uThumb)
    /\ (uVideo /\ ~uID.ok) => (KnownShape(uIn) /\ ~uThumb)
    /\ uThumb => (uVideo /\ uID.ok)

\* a string that is not a video-host URL although an identifier pattern
\* occurs in it, and a video-host URL without an identifier
C22_Witness ==
  /\ upc = "done"
  /\ \/ ~KnownShape(uIn) /\ uID.ok /\ ~uVideo
     \/ KnownShape(uIn) /\ ~uID.ok /\ uVideo

\* ------------------------------------------------------------------------
\* Markdown log: ParseMarkdownFile, UpdateScreenshotReference,
\* WriteMarkdownFile, GetEntriesWithoutScreenshots
\* ------------------------------------------------------------------------
\* const screenshotPrefix
screenshotPrefix == <<"S", "c", "r", "e", "e", "n", " ", "S", "h", "o", "t", ":", " ">>
\* literal parts of dayHeaderRegex and urlRegex, the format "## Day %d" and
\* the prefix tested at line 116
sDayHeader == <<"#", "#", " ", "D", "a", "y", " ">>
sDayWord == <<"#", "#", " ", "D", "a", "y">>
sUrlPrefix == <<"-", " ", "U", "R", "L", ":", " ">>
\* lines of the logs drawn
lTitle == <<"#", " ", "L", "o", "g">>
lText == <<"T", "e", "x", "t", ".">>
lUrl == <<"-", " ", "U", "R", "L", ":", " ", "h", "t", "t", "p", "s", ":", "/", "/", "a", ".", "i", "o">>
lOldShot == <<"S", "c", "r", "e", "e", "n", " ", "S", "h", "o", "t", ":", " ", "o", "l", "d", ".", "p", "n", "g">>
lBlank == <<>>

\* strings.TrimSpace
IsSpace(c) == c \in {" ", "\t", "\r", "\n"}
TrimSpace(s) ==
  LET keep == {i \in 1..Len(s) : ~IsSpace(s[i])}
  IN IF keep = {} THEN <<>> ELSE SubSeq(s, SetMin(keep), SetMax(keep))

IsDigit(c) == \E i \in 1..Len(Digits) : Digits[i] = c
DigitValue(c) == (CHOOSE i \in 1..Len(Digits) : Digits[i] = c) - 1

\* strconv.Atoi on a run of digits
RECURSIVE Atoi(_)
Atoi(ds) ==
  IF ds = <<>> THEN 0
  ELSE 10 * Atoi(SubSeq(ds, 1, Len(ds) - 1)) + DigitValue(ds[Len(ds)])

\* dayHeaderRegex: ^## Day (\d+); DayDigits is the submatch
DayDigits(line) ==
  LET from == Len(sDayHeader)
      stop == {i \in (from + 1)..Len(line) : ~IsDigit(line[i])}
      to == IF stop = {} THEN Len(line) ELSE SetMin(stop) - 1
  IN SubSeq(line, from + 1, to)
IsDayHeader(line) == HasPrefix(line, sDayHeader) /\ DayDigits(line) # <<>>

\* urlRegex: ^- URL: (https?://.+)$
UrlMatch(line) ==
  LET rest == SubSeq(line, Len(sUrlPrefix) + 1, Len(line))
  IN /\ HasPrefix(line, sUrlPrefix)
     /\ \E scheme \in {sHttp, sHttps} : HasPrefix(rest, scheme) /\ Len(rest) > Len(scheme)
UrlOfLine(line) == SubSeq(line, Len(sUrlPrefix) + 1, Len(line))

\* screenshotRegex: ^Screen Shot: (.+)$
ShotMatch(line) == HasPrefix(line, screenshotPrefix) /\ Len(line) > Len(screenshotPrefix)
ShotOfLine(line) == SubSeq(line, Len(screenshotPrefix) + 1, Len(line))

\* type DayEntry; Content is kept as the lines strings.Join puts together
DayEntry(day, content) ==
  [Day |-> day, Content |-> content, URL |-> <<>>, Screenshot |-> <<>>,
   HasScreenshot |-> FALSE]

\* one turn of the scanner loop of ParseMarkdownFile
ScanLine(st, line) ==
  IF IsDayHeader(line)
  THEN [Entries |-> IF st.open THEN Append(st.Entries, st.cur) ELSE st.Entries,
        open |-> TRUE,
        cur |-> DayEntry(Atoi(DayDigits(line)), <<line>>)]
  ELSE IF st.open
  THEN LET trimmed == TrimSpace(line)
           e1 == [st.cur EXCEPT !.Content = Append(@, line)]
           e2 == IF UrlMatch(trimmed) THEN [e1 EXCEPT !.URL = UrlOfLine(trimmed)] ELSE e1
           e3 == IF ShotMatch(trimmed)
                 THEN [e2 EXCEPT !.Screenshot = ShotOfLine(trimmed), !.HasScreenshot = TRUE]
                 ELSE e2
       IN [st EXCEPT !.cur = e3]
  ELSE st

RECURSIVE ScanLines(_, _)
ScanLines(st, lines) ==
  IF lines = <<>> THEN st ELSE ScanLines(ScanLine(st, Head(lines)), Tail(lines))

\* ParseMarkdownFile on a file the scanner splits into these lines
ParseMarkdownFile(lines) ==
  LET st == ScanLines([Entries |-> <<>>, open |-> FALSE, cur |-> DayEntry(0, <<>>)], lines)
  IN [Entries |-> IF st.open THEN Append(st.Entries, st.cur) ELSE st.Entries,
      content |-> lines]

\* nil and the three errors of UpdateScreenshotReference
errNil == "nil"
errAlready == "already has a screenshot reference"
errNotFound == "not found"
errNotInContent == "not found in markdown content"

\* content with line put in after the first n lines
InsertAfter(content, n, line) ==
  SubSeq(content, 1, n) \o <<line>> \o SubSeq(content, n + 1, Len(content))

\* the loop over mf.content: number of lines kept before the new line, -1
\* when no line contains the header pattern
InsertIndex(content, day) ==
  LET dayHeaderPattern == sDayHeader \o Itoa(day)
      js == {j \in 1..Len(content) : Contains(content[j], dayHeaderPattern)}
  IN IF js = {} THEN 0 - 1
     ELSE LET ks == {k \in (SetMin(js) + 1)..Len(content) : HasPrefix(content[k], sDayWord)}
          IN IF ks = {} THEN Len(content) ELSE SetMin(ks) - 1

\* the same with the reference overwritten when the day already has one
UpdateScreenshotReference_Overwrite(m, day, filename) ==
  LET is == {i \in 1..Len(m.Entries) : m.Entries[i].Day = day}
  IN IF is = {} THEN [mf |-> m, err |-> errNotFound]
     ELSE LET i == SetMin(is)
              n == InsertIndex(m.content, day)
              es == [m.Entries EXCEPT ![i].Screenshot = filename, ![i].HasScreenshot = TRUE]
          IN IF n = 0 - 1 THEN [mf |-> [m EXCEPT !.Entries = es], err |-> errNotInContent]
             ELSE [mf |-> [Entries |-> es,
                           content |-> InsertAfter(m.content, n, screenshotPrefix \o filename)],
                   err |-> errNil]

\* UpdateScreenshotReference: the receiver after the call and the error
UpdateScreenshotReference(m, day, filename) ==
  LET is == {i \in 1..Len(m.Entries) : m.Entries[i].Day = day}
  IN IF is = {} THEN [mf |-> m, err |-> errNotFound]
     ELSE LET i == SetMin(is)
              n == InsertIndex(m.content, day)
              es == [m.Entries EXCEPT ![i].Screenshot = filename, ![i].HasScreenshot = TRUE]
          IN IF m.Entries[i].HasScreenshot THEN [mf |-> m, err |-> errAlready]
             ELSE IF n = 0 - 1 THEN [mf |-> [m EXCEPT !.Entries = es], err |-> errNotInContent]
             ELSE [mf |-> [Entries |-> es,
                           content |-> InsertAfter(m.content, n, screenshotPrefix \o filename)],
                   err |-> errNil]

\* the same without the test of HasScreenshot
GetEntriesWithoutScreenshots_AnyState(m) ==
  SelectSeq(m.Entries, LAMBDA e : e.URL # <<>>)

\* GetEntriesWithoutScreenshots
GetEntriesWithoutScreenshots(m) ==
  SelectSeq(m.Entries, LAMBDA e : ~e.HasScreenshot /\ e.URL # <<>>)

\* the logs drawn: a title, then up to two sections; a section is a header,
\* a line of text, then nothing, a URL line, or a URL line and a reference,
\* and it ends with or without a blank line
LogDays == {1, 2, 10}
SectionKinds == {"text", "url", "shot"}
Section(day, kind, blank) ==
  <<sDayHeader \o Itoa(day), lText>>
    \o (IF kind = "text" THEN <<>> ELSE IF kind = "url" THEN <<lUrl>> ELSE <<lUrl, lOldShot>>)
    \o (IF blank THEN <<lBlank>> ELSE <<>>)
Sections == {Section(d, k, b) : d \in LogDays, k \in SectionKinds, b \in BOOLEAN}
Logs == {<<lTitle, lBlank>> \o a \o b : a \in Sections \cup {<<>>}, b \in Sections}
\* days handed to UpdateScreenshotReference; 3 is in no log
UpdateDays == LogDays \cup {3}

MdInit ==
  /\ mdFile \in {[lines |-> l, nl |-> FALSE] : l \in Logs}
  /\ mdBackup = NoBackup
  /\ mf = NoMarkdownFile
  /\ mf0 = NoMarkdownFile
  /\ mdDay = 0
  /\ mdName = <<>>
  /\ mdErr = "none"
  /\ mdGot = <<>>
  /\ mdDone = {}
  /\ mdUpdates = 0
  /\ mpc = "start"

mdOther == <<urlVars, retryVars, delayVars, resizeVars, errv, category, acqVars>>

\* ParseMarkdownFile returns a *MarkdownFile: at the start of a run, and at
\* the start of the next run on the file the run before has written
ParseFile ==
  /\ \/ mpc = "start"
     \/ mpc = "write" /\ mdErr = errNil
  /\ mf0' = mf
  /\ mf' = ParseMarkdownFile(mdFile.lines)
  /\ mdErr' = errNil
  /\ mdDone' = {}
  /\ mpc' = IF mpc = "start" THEN "parse" ELSE "reparse"
  /\ UNCHANGED <<mdFile, mdBackup, mdDay, mdName, mdGot, mdUpdates, mdOther>>

\* os.Open or the scanner fails: ParseMarkdownFile returns nil and an error
ParseFails ==
  /\ mpc = "start"
  /\ mdErr' = "failed to open file"
  /\ mpc' = "failed"
  /\ UNCHANGED <<mdFile, mdBackup, mf, mf0, mdDay, mdName, mdGot, mdDone, mdUpdates, mdOther>>

\* mf.UpdateScreenshotReference(day, GenerateBaseFilename(day))
CallUpdate ==
  /\ mpc \in {"parse", "reparse", "update", "get"}
  /\ mdUpdates < MaxUpdates
  /\ \E day \in UpdateDays :
       LET r == UpdateScreenshotReference(mf, day, GenerateBaseFilename(day))
       IN /\ mdDay' = day
          /\ mdName' = GenerateBaseFilename(day)
          /\ mf0' = mf
          /\ mf' = r.mf
          /\ mdErr' = r.err
          /\ mdDone' = IF r.err = errNil
                       THEN mdDone \cup {SetMin({i \in 1..Len(mf.Entries) : mf.Entries[i].Day = day})}
                       ELSE mdDone
  /\ mdUpdates' = mdUpdates + 1
  /\ mpc' = "update"
  /\ UNCHANGED <<mdFile, mdBackup, mdGot, mdOther>>

\* mf.GetEntriesWithoutScreenshots()
CallGet ==
  /\ mpc \in {"parse", "reparse", "update"}
  /\ mdGot' = GetEntriesWithoutScreenshots(mf)
  /\ mpc' = "get"
  /\ UNCHANGED <<mdFile, mdBackup, mf, mf0, mdDay, mdName, mdErr, mdDone, mdUpdates, mdOther>>

\* len(originalData) > 0
HasOriginal == mdFile.lines # <<>>
\* the backup os.WriteFile(backupPath, originalData) makes
BackupOfOriginal == [present |-> TRUE, lines |-> mdFile.lines, nl |-> mdFile.nl]

\* WriteMarkdownFile returns nil: every line written with "\n" after it,
\* the backup removed
WriteMarkdownFile ==
  /\ mpc = "update"
  /\ mdFile' = [lines |-> mf.content, nl |-> mf.content # <<>>]
  /\ mdBackup' = IF HasOriginal THEN NoBackup ELSE mdBackup
  /\ mdErr' = errNil
  /\ mpc' = "write"
  /\ UNCHANGED <<mf, mf0, mdDay, mdName, mdGot, mdDone, mdUpdates, mdOther>>

\* WriteMarkdownFile returns an error: reading the original, writing the
\* backup, os.Create, or a write after n lines fails; after a failed write
\* the original is written back (an os.WriteFile whose error is dropped, so
\* the file holds the original or what the failed attempts left) and the
\* backup is removed
WriteFails ==
  /\ mpc = "update"
  /\ \/ /\ mdErr' = "failed to read original file for backup"
        /\ UNCHANGED <<mdFile, mdBackup>>
     \/ /\ HasOriginal
        /\ mdErr' = "failed to create backup file"
        /\ mdBackup' \in {mdBackup, [present |-> TRUE, lines |-> <<>>, nl |-> FALSE]}
        /\ UNCHANGED mdFile
     \/ /\ mdErr' = "failed to create file"
        /\ mdBackup' = IF HasOriginal THEN BackupOfOriginal ELSE mdBackup
        /\ UNCHANGED mdFile
     \/ /\ mdErr' = "error writing to file"
        /\ \E n \in 0..Min(MaxWritten, Len(mf.content)) :
             mdFile' \in
               (IF HasOriginal THEN {mdFile} ELSE {}) \cup
               {[lines |-> SubSeq(mf.content, 1, n), nl |-> n > 0],
                [lines |-> <<>>, nl |-> FALSE]}
        /\ mdBackup' = IF HasOriginal THEN NoBackup ELSE mdBackup
  /\ mpc' = "write"
  /\ UNCHANGED <<mf, mf0, mdDay, mdName, mdGot, mdDone, mdUpdates, mdOther>>

InitMd == AcqIdle /\ ErrOff /\ RetryIdle /\ DelayIdle /\ ResizeIdle /\ UrlIdle /\ MdInit
NextMd == ParseFile \/ ParseFails \/ CallUpdate \/ CallGet \/ WriteMarkdownFile \/ WriteFails

SpecMd == InitMd /\ [][NextMd]_vars

\* the first entry of m whose Day is day, 0 when there is none
EntryOfDay(m, day) ==
  LET is == {i \in 1..Len(m.Entries) : m.Entries[i].Day = day}
  IN IF is = {} THEN 0 ELSE SetMin(is)

\* the k-th smallest member of a set of numbers
Kth(S, k) == CHOOSE x \in S : Cardinality({y \in S : y <= x}) = k

\* position in content of the last URL line of the section of the i-th
\* header, 0 when the section has none
UrlLineOfSection(content, i) ==
  LET hs == {j \in 1..Len(content) : IsDayHeader(content[j])}
      h == Kth(hs, i)
      later == {j \in hs : j > h}
      end == IF later = {} THEN Len(content) ELSE SetMin(later) - 1
      us == {j \in (h + 1)..end : UrlMatch(TrimSpace(content[j]))}
  IN IF us = {} THEN 0 ELSE SetMax(us)

\* C24: after a successful UpdateScreenshotReference(day, filename) the
\* content is the content before the call with the one line
\* "Screen Shot: <filename>" put in directly after the URL line of the
\* section of that day; every other line keeps its text and its place
\* relative to the others
C24_ReferenceDirectlyAfterURLLine ==
  (mpc = "update" /\ mdErr = errNil /\ mf0.Entries[EntryOfDay(mf0, mdDay)].URL # <<>>) =>
    mf.content =
      InsertAfter(mf0.content, UrlLineOfSection(mf0.content, EntryOfDay(mf0, mdDay)),
                  screenshotPrefix \o mdName)

C26_FailedUpdateChangesNothing ==
  mpc = "update" =>
    /\ EntryOfDay(mf0, mdDay) = 0 => (mdErr = errNotFound /\ mf = mf0)
    /\ (EntryOfDay(mf0, mdDay) # 0 /\ mf0.Entries[EntryOfDay(mf0, mdDay)].HasScreenshot) =>
         (mdErr = errAlready /\ mf = mf0)
    /\ Len(mf.Entries) = Len(mf0.Entries)
    /\ \A i \in 1..Len(mf0.Entries) :
         mf0.Entries[i].HasScreenshot => mf.Entries[i] = mf0.Entries[i]

\* the second update of a day is refused and the reference the first one set
\* is still there
C26_Witness ==
  /\ mpc = "update"
  /\ mdUpdates = 2
  /\ mdErr = errAlready
  /\ mf.Entries[EntryOfDay(mf, mdDay)].Screenshot = mdName

\* Day, URL, Screenshot and HasScreenshot of the entries, in order
EntryStates(m) ==
  [i \in 1..Len(m.Entries) |->
     <<m.Entries[i].Day, m.Entries[i].URL, m.Entries[i].Screenshot,
       m.Entries[i].HasScreenshot>>]

\* an update has succeeded on m: an entry holds the file name made for its day
HasUpdatedEntry(m) ==
  \E i \in 1..Len(m.Entries) :
    /\ m.Entries[i].HasScreenshot
    /\ m.Entries[i].Screenshot = GenerateBaseFilename(m.Entries[i].Day)

\* C30: after a successful update and a successful write, parsing the
\* written file gives the entries the updated log had in memory: the same
\* days and URLs in the same order, the updated entry with its reference,
\* every other entry with the screenshot state it had
C30_RoundTripKeepsEntries ==
  (mpc = "reparse" /\ HasUpdatedEntry(mf0)) => EntryStates(mf) = EntryStates(mf0)

\* ------------------------------------------------------------------------
\* Order of the steps of captureRegularScreenshot
\* ------------------------------------------------------------------------
\* the calls of captureRegularScreenshot and WaitForPageLoad, in the order
\* of the code
renderSteps ==
  <<"launch", "connect", "page", "viewport", "useragent", "navigate", "waitload",
    "fonts", "idle", "stable", "sleep", "screenshot", "write">>
StepIndex(step) == CHOOSE i \in 1..Len(renderSteps) : renderSteps[i] = step
IsRenderStep(step) == \E i \in 1..Len(renderSteps) : renderSteps[i] = step

\* the text the error of a failing step starts with
StageOf(step) ==
  CASE step = "launch" -> "failed to launch browser"
    [] step = "connect" -> "failed to connect to browser"
    [] step = "page" -> "failed to create page"
    [] step = "viewport" -> "failed to set viewport"
    [] step = "useragent" -> "failed to set user agent"
    [] step = "navigate" -> "failed to navigate to URL"
    [] step = "waitload" -> "failed waiting for DOM load"
    [] step = "fonts" -> "failed waiting for fonts"
    [] step = "stable" -> "failed waiting for content stability"
    [] step = "screenshot" -> "failed to capture screenshot"
    [] step = "write" -> "failed to write screenshot file"
    [] OTHER -> "none"

\* a step of the render either succeeds and hands over to the next step in
\* the order (the last one, the write, ends the render with the file
\* written), or fails: then the deferred calls are all that still runs, the
\* error names the stage of that step, and the output file is as it was
StepOfRender ==
  IsRenderStep(pc) =>
    \/ /\ pc # "write"
       /\ pc' = renderSteps[StepIndex(pc) + 1]
       /\ renderErr' = renderErr
       /\ file' = file
    \/ /\ pc = "write"
       /\ pc' = "defers"
       /\ renderErr' = Nil
       /\ file' = Shot
    \/ /\ pc' = "defers"
       /\ renderErr'.stage = StageOf(pc)
       /\ file' = file

\* C27: captureRegularScreenshot runs launch, connect, open page, set
\* viewport, set user agent, navigate, the five waits, capture and write in
\* this order; the first step that fails ends the render: no later step
\* runs, no output file is written, and the error names the failed stage
C27_StepsInOrderAndFailureWritesNoFile == [][StepOfRender]_vars

\* ------------------------------------------------------------------------
\* The first pass of SmartCrop
\* ------------------------------------------------------------------------
CropPasses == {"crop-height", "crop-width"}
ScalePasses == {"resize-width", "resize-height", "scale"}
\* originalRatio > targetRatio, originalRatio < targetRatio
SourceWider == cSrc.w * cTarget.Height > cTarget.Width * cSrc.h
SourceTaller == cSrc.w * cTarget.Height < cTarget.Width * cSrc.h

\* C28: a source wider than the target is cropped to the computed height
\* or, when that does not fit, scaled to the target width; a taller one is
\* cropped to the computed width or scaled to the target height; equal
\* ratios scale to the target; and the crop is the normal path: a source
\* that is at least as large as the target and of another ratio is cropped,
\* not scaled
C28_CropIsTheNormalPath ==
  cpc = "done" =>
    /\ SourceWider => cOut.pass \in {"crop-height", "resize-width"}
    /\ SourceTaller => cOut.pass \in {"crop-width", "resize-height"}
    /\ (~SourceWider /\ ~SourceTaller) => cOut.pass = "scale"
    /\ (/\ cSrc.w >= cTarget.Width /\ cSrc.h >= cTarget.Height
        /\ (SourceWider \/ SourceTaller)) => cOut.pass \in CropPasses

\* C29: when SmartCrop takes a crop branch, the crop rectangle is the whole
\* source: the first pass removes nothing, and the output is what the
\* centred imaging.Fill makes of the uncropped source
C29_CropBranchKeepsWholeSource ==
  (cpc = "done" /\ cOut.pass \in CropPasses) =>
    /\ \A low \in BOOLEAN :
         LET first == FirstPass(cSrc, cTarget.Width, cTarget.Height, low)
         IN first.pass \in CropPasses =>
              /\ first.w = cSrc.w /\ first.h = cSrc.h
              /\ ~first.cutTop /\ ~first.cutBottom /\ ~first.cutLeft /\ ~first.cutRight
    /\ [cOut EXCEPT !.pass = "none"] = Fill(cSrc, cTarget.Width, cTarget.Height)

\* a source for which the crop branch is taken: 1920 * 628 / 1200 = 1004.8
C29_Witness ==
  /\ cpc = "done"
  /\ cSrc = Image(1920, 1004)
  /\ cTarget = Twitter
  /\ cOut.pass = "crop-height"
  /\ cOut.cutRight /\ ~cOut.cutTop /\ ~cOut.cutBottom

====
